---- MODULE Spec2Model ----
(***************************************************************************)
(* A model of the FIT dual analyzer's data core: combineFileData           *)
(* (src/src/utils/dataCombiner.ts, and the timeline of its variant         *)
(* src/unnamed/part_003) and cleanFitData (src/src/utils/dataSmoothing.ts).*)
(*                                                                         *)
(* Numbers.  Timestamps are integer milliseconds, counted from the start   *)
(* of the recording day instead of from 1970 so that they fit TLC's        *)
(* integers.  A metric value is an exact rational <<n, d>> with d > 0 in   *)
(* lowest terms; the absent value (JavaScript's undefined) is the empty    *)
(* tuple.  The model computes over the rationals: the rounding error of    *)
(* IEEE doubles is not modelled.                                           *)
(***************************************************************************)
EXTENDS Integers, Sequences, FiniteSets, TLC

VARIABLES
  file1Data,     \* source 1 as decoded: Null or a ProcessedFitData
  file2Data,     \* source 2
  cleanData,     \* <<>>, or <<c1, c2>>: the two sources after cleanFitData
  combinedData,  \* <<>>, or <<c>>: the CombinedData of the analysis
  phase,         \* "upload" or "analysis" (App's currentState)
  callInput,     \* <<>>, or the arguments of a function called on its own
  callOutput,    \* <<>>, or <<r>>: what that call returned
  file1State,    \* the FileUploadState of the first upload slot
  file2State,    \* and of the second
  processing     \* the calls of processFile that have not settled yet

vars == <<file1Data, file2Data, cleanData, combinedData, phase,
          callInput, callOutput, file1State, file2State, processing>>

-----------------------------------------------------------------------------
(* Rational arithmetic.                                                    *)

Abs(x) == IF x < 0 THEN -x ELSE x

Max(a, b) == IF a >= b THEN a ELSE b

Min(a, b) == IF a <= b THEN a ELSE b

RECURSIVE GCD(_, _)
GCD(a, b) == IF b = 0 THEN a ELSE GCD(b, a % b)

Norm(n, d) == LET g == GCD(Abs(n), d) IN <<n \div g, d \div g>>

Num(n) == <<n, 1>>

RAdd(a, b) ==
  LET g == GCD(a[2], b[2])
  IN Norm(a[1] * (b[2] \div g) + b[1] * (a[2] \div g), (a[2] \div g) * b[2])

RSub(a, b) == RAdd(a, <<-b[1], b[2]>>)

RMulInt(a, k) == Norm(a[1] * k, a[2])

RDivInt(a, k) == Norm(a[1], a[2] * k)

RMul(a, b) == Norm(a[1] * b[1], a[2] * b[2])

RLess(a, b) == a[1] * b[2] < b[1] * a[2]

RLeq(a, b) == a[1] * b[2] <= b[1] * a[2]

RPositive(a) == a[1] > 0

RNonNegative(a) == a[1] >= 0

\* Math.floor and Math.round (round half up) of a rational
Floor(a) == a[1] \div a[2]

MathRound(a) == (2 * a[1] + a[2]) \div (2 * a[2])

-----------------------------------------------------------------------------
(* Values, records and sources.                                            *)

Undefined == <<>>

IsDefined(v) == Len(v) > 0

Metrics == <<"power", "heart_rate", "speed", "cadence", "altitude">>

MetricSet == {Metrics[i] : i \in 1..Len(Metrics)}

\* A FitRecord: a timestamp and the metrics it holds
FitRecord(ts, pw, hr, sp, cd, alt) ==
  [timestamp |-> ts, power |-> pw, heart_rate |-> hr, speed |-> sp,
   cadence |-> cd, altitude |-> alt]

\* A ProcessedFitData | null: <<>> is null, <<d>> is the object d
Null == <<>>

IsNull(f) == Len(f) = 0

ProcessedFitData(recs, avail) == <<[records |-> recs, availableMetrics |-> avail]>>

\* useState<FileUploadState> of UploadPage: file and error are <<>> for null
EmptySlot ==
  [file |-> <<>>, data |-> Null, loading |-> FALSE, error |-> <<>>,
   fileName |-> ""]

RecordsOf(f) == IF IsNull(f) THEN <<>> ELSE f[1].records

AvailableOf(f) == IF IsNull(f) THEN <<>> ELSE f[1].availableMetrics

-----------------------------------------------------------------------------
(* Array helpers.                                                          *)

\* Array.prototype.sort with the comparator (a, b) => key(a) - key(b), where
\* keys[i] is the key of seq[i]: ascending, elements of equal key keeping
\* their order (the sort is stable)
SortBy(seq, keys) ==
  LET n == Len(seq)
      Rank(i) == Cardinality({j \in 1..n : \/ keys[j] < keys[i]
                                           \/ (keys[j] = keys[i] /\ j < i)}) + 1
  IN [p \in 1..n |-> seq[CHOOSE i \in 1..n : Rank(i) = p]]

\* Array.prototype.sort with the comparator (a, b) => a - b over numbers
SortNumbers(values) ==
  LET n == Len(values)
      Rank(i) == Cardinality({j \in 1..n :
                                \/ RLess(values[j], values[i])
                                \/ (~RLess(values[i], values[j]) /\ j < i)}) + 1
  IN [p \in 1..n |-> values[CHOOSE i \in 1..n : Rank(i) = p]]

\* arr.slice(0, k)
Slice0(seq, k) == SubSeq(seq, 1, Min(k, Len(seq)))

\* Array.from(new Set(seq)): first occurrences, in order
Dedupe(seq) ==
  SelectSeq([i \in 1..Len(seq) |-> <<i, seq[i]>>],
            LAMBDA p : \A j \in 1..(p[1] - 1) : seq[j] /= p[2])

Uniq(seq) == LET d == Dedupe(seq) IN [i \in 1..Len(d) |-> d[i][2]]

Contains(seq, x) == \E i \in 1..Len(seq) : seq[i] = x

-----------------------------------------------------------------------------
(* combineFileData, src/src/utils/dataCombiner.ts.                         *)

MinTimeStep == 1000

MaxPoints == 2000

MaxDistance == 10000

ClosestCount == 3

\* formatTime(seconds), called with (time - startTime) / 1000: the label
\* <<hours, minutes, secs>> the string is printed from
FormatTime(ms) ==
  <<ms \div 3600000, (ms % 3600000) \div 60000, (ms % 60000) \div 1000>>

\* getMetricPrecision returning 10 for every metric
GetMetricPrecisionTenths(metric) == 10

\* getMetricPrecision(metric)
GetMetricPrecision(metric) ==
  CASE metric = "speed" -> 10
    [] metric \in {"power", "heart_rate", "cadence", "altitude"} -> 1
    [] OTHER -> 10

\* findClosestRecords without its distance filter: the three nearest records,
\* however far away they are
FindClosestRecordsAnyDistance(records, targetTime) ==
  Slice0(SortBy(records, [i \in 1..Len(records) |->
                            Abs(records[i].timestamp - targetTime)]),
         ClosestCount)

\* findClosestRecords(records, targetTime): the records within maxDistance
\* of targetTime, nearest first, at most three of them
FindClosestRecords(records, targetTime) ==
  LET closeRecords == SelectSeq(records,
                        LAMBDA r : Abs(r.timestamp - targetTime) <= MaxDistance)
  IN Slice0(SortBy(closeRecords, [i \in 1..Len(closeRecords) |->
                                    Abs(closeRecords[i].timestamp - targetTime)]),
            ClosestCount)

\* records.filter(r => r.timestamp <= targetTime).sort(descending)[0],
\* <<>> when the filter leaves nothing
BeforeRecord(records, targetTime) ==
  LET kept == SelectSeq(records, LAMBDA r : r.timestamp <= targetTime)
  IN Slice0(SortBy(kept, [i \in 1..Len(kept) |-> -kept[i].timestamp]), 1)

\* records.filter(r => r.timestamp >= targetTime).sort(ascending)[0]
AfterRecord(records, targetTime) ==
  LET kept == SelectSeq(records, LAMBDA r : r.timestamp >= targetTime)
  IN Slice0(SortBy(kept, [i \in 1..Len(kept) |-> kept[i].timestamp]), 1)

\* the test "value !== undefined && value > 0" of interpolateDataPoint
UsableValue(v) == IsDefined(v) /\ RPositive(v)

\* the ratio with the subtraction of beforeRecord.timestamp forgotten:
\* targetTime / timeDiff
TimeRatioFromZero(targetTime, beforeTs, afterTs) ==
  Norm(targetTime, afterTs - beforeTs)

\* timeRatio = (targetTime - beforeRecord.timestamp) / timeDiff
TimeRatio(targetTime, beforeTs, afterTs) ==
  Norm(targetTime - beforeTs, afterTs - beforeTs)

\* the same step taken from afterValue on
LerpPastAfter(beforeValue, afterValue, ratio) ==
  RAdd(afterValue,
       RDivInt(RMulInt(RSub(afterValue, beforeValue), ratio[1]), ratio[2]))

\* beforeValue + (afterValue - beforeValue) * timeRatio
Lerp(beforeValue, afterValue, ratio) ==
  RAdd(beforeValue,
       RDivInt(RMulInt(RSub(afterValue, beforeValue), ratio[1]), ratio[2]))

\* interpolateDataPoint(records, targetTime): metric -> value or Undefined
InterpolateDataPoint(records, targetTime) ==
  LET before == BeforeRecord(records, targetTime)
      after  == AfterRecord(records, targetTime)
  IN IF Len(before) = 0 \/ Len(after) = 0
        \/ before[1].timestamp = after[1].timestamp
     THEN LET closest == IF Len(before) > 0 THEN before ELSE after
          IN [m \in MetricSet |->
                IF Len(closest) > 0 /\ UsableValue(closest[1][m])
                THEN closest[1][m] ELSE Undefined]
     ELSE LET ratio == TimeRatio(targetTime, before[1].timestamp,
                                 after[1].timestamp)
          IN [m \in MetricSet |->
                LET beforeValue == before[1][m]
                    afterValue  == after[1][m]
                IN IF UsableValue(beforeValue) /\ UsableValue(afterValue)
                   THEN Lerp(beforeValue, afterValue, ratio)
                   ELSE IF UsableValue(beforeValue) THEN beforeValue
                   ELSE IF UsableValue(afterValue) THEN afterValue
                   ELSE Undefined]

\* the value the loop body stores for one available metric
ResolveMetric(interpolatedData, closestRecords, metric) ==
  IF IsDefined(interpolatedData[metric])
  THEN interpolatedData[metric]
  ELSE LET withMetric == SelectSeq(closestRecords,
                                   LAMBDA r : IsDefined(r[metric]))
       IN IF Len(withMetric) > 0 THEN withMetric[1][metric] ELSE Undefined

\* one ChartDataPoint: the body of the loop over the timeline
DataPoint(allRecords, availableMetrics, startTime, time) ==
  LET closestRecords   == FindClosestRecords(allRecords, time)
      interpolatedData == InterpolateDataPoint(allRecords, time)
      V(metric) == IF Contains(availableMetrics, metric)
                   THEN ResolveMetric(interpolatedData, closestRecords, metric)
                   ELSE Undefined
  IN [timestamp |-> time, time |-> FormatTime(time - startTime),
      power |-> V("power"), heart_rate |-> V("heart_rate"),
      speed |-> V("speed"), cadence |-> V("cadence"),
      altitude |-> V("altitude")]

\* the step with a floor of one millisecond instead of one second:
\* Math.max(1, Math.floor(duration * 1000 / 2000))
TimeStepMillis(startTime, endTime) ==
  Max(1, (endTime - startTime) \div MaxPoints)

\* timeStep = Math.max(1000, Math.floor(duration * 1000 / 2000))
TimeStep(startTime, endTime) ==
  Max(MinTimeStep, (endTime - startTime) \div MaxPoints)

\* the loop condition written time < endTime
InRangeExclusive(time, endTime) == time < endTime

\* the loop condition time <= endTime
InRange(time, endTime) == time <= endTime

\* for (let time = startTime; time <= endTime; time += timeStep): the loop
\* visits startTime + k * timeStep for k = 0, 1, 2, ... as long as the
\* condition holds; k is searched one past the last multiple that can fit
Timeline(startTime, endTime, timeStep) ==
  LET visited == {k \in 0..(((endTime - startTime) \div timeStep) + 1) :
                    InRange(startTime + k * timeStep, endTime)}
  IN [i \in 1..Cardinality(visited) |-> startTime + (i - 1) * timeStep]

\* the values of one metric over the grid that the statistics keep:
\* v !== undefined && v !== null && !isNaN(v) && v > 0
StatValue(v) == IsDefined(v) /\ RPositive(v)

\* values.reduce((a, b) => a + b, 0) over values[lo..hi]; rational addition
\* is associative, so the sum is taken by halves to keep the nesting shallow
RECURSIVE SumRange(_, _, _)
SumRange(values, lo, hi) ==
  IF lo > hi THEN Num(0)
  ELSE IF lo = hi THEN values[lo]
  ELSE LET mid == (lo + hi) \div 2
       IN RAdd(SumRange(values, lo, mid), SumRange(values, mid + 1, hi))

SumOf(values) == SumRange(values, 1, Len(values))

\* Math.max(...values) and Math.min(...values), values not empty
RECURSIVE MaxRange(_, _, _)
MaxRange(values, lo, hi) ==
  IF lo = hi THEN values[lo]
  ELSE LET mid == (lo + hi) \div 2
           l == MaxRange(values, lo, mid)
           r == MaxRange(values, mid + 1, hi)
       IN IF RLess(l, r) THEN r ELSE l

MaxOf(values) == MaxRange(values, 1, Len(values))

RECURSIVE MinRange(_, _, _)
MinRange(values, lo, hi) ==
  IF lo = hi THEN values[lo]
  ELSE LET mid == (lo + hi) \div 2
           l == MinRange(values, lo, mid)
           r == MinRange(values, mid + 1, hi)
       IN IF RLess(r, l) THEN r ELSE l

MinOf(values) == MinRange(values, 1, Len(values))

\* Math.round(x * precision) / precision
RoundTo(x, precision) == Norm(MathRound(RMulInt(x, precision)), precision)

\* stats[metric] without the guard values.length > 0 of line 86: with no
\* value kept the entry holds NaN and infinities, shown here as Undefined
MetricStatsAlways(chartData, metric) ==
  LET values == SelectSeq([i \in 1..Len(chartData) |-> chartData[i][metric]],
                          StatValue)
      precision == GetMetricPrecision(metric)
  IN IF Len(values) > 0
     THEN <<[avg |-> RoundTo(RDivInt(SumOf(values), Len(values)), precision),
             max |-> RoundTo(MaxOf(values), precision),
             min |-> RoundTo(MinOf(values), precision)]>>
     ELSE <<[avg |-> Undefined, max |-> Undefined, min |-> Undefined]>>

\* stats[metric]: <<>> when no value is kept, else <<[avg, max, min]>>
MetricStats(chartData, metric) ==
  LET values == SelectSeq([i \in 1..Len(chartData) |-> chartData[i][metric]],
                          StatValue)
      precision == GetMetricPrecision(metric)
  IN IF Len(values) > 0
     THEN <<[avg |-> RoundTo(RDivInt(SumOf(values), Len(values)), precision),
             max |-> RoundTo(MaxOf(values), precision),
             min |-> RoundTo(MinOf(values), precision)]>>
     ELSE <<>>

\* the result of lines 5-12 and 22-29
EmptyCombined ==
  [raised |-> FALSE, chartData |-> <<>>,
   summary |-> [duration |-> Num(0), availableMetrics |-> <<>>,
                stats |-> [m \in MetricSet |-> <<>>]]]

\* a TypeError: a property of undefined was read
RaisedTypeError ==
  [raised |-> TRUE, chartData |-> <<>>,
   summary |-> [duration |-> Num(0), availableMetrics |-> <<>>,
                stats |-> [m \in MetricSet |-> <<>>]]]

\* !file1Data && !file2Data
BothNull(f1, f2) == IsNull(f1) /\ IsNull(f2)

\* combineFileData without the guard of line 21
NoRecordsNever(allRecords) == FALSE

\* allRecords.length === 0
NoRecords(allRecords) == Len(allRecords) = 0

\* the pool with one sample kept per timestamp: the sort, then the samples
\* whose timestamp was already seen dropped
MergedPoolDistinctTimes(f1, f2) ==
  LET allRecords == RecordsOf(f1) \o RecordsOf(f2)
      sorted == SortBy(allRecords,
                       [i \in 1..Len(allRecords) |-> allRecords[i].timestamp])
      kept == SelectSeq([i \in 1..Len(sorted) |-> <<i, sorted[i]>>],
                        LAMBDA p : \A j \in 1..(p[1] - 1) :
                                      sorted[j].timestamp /= p[2].timestamp)
  IN [i \in 1..Len(kept) |-> kept[i][2]]

\* the pool without the sort of line 33: the samples in arrival order
MergedPoolUnsorted(f1, f2) == RecordsOf(f1) \o RecordsOf(f2)

\* [...(file1Data?.records || []), ...(file2Data?.records || [])], sorted
MergedPool(f1, f2) ==
  LET allRecords == RecordsOf(f1) \o RecordsOf(f2)
  IN SortBy(allRecords, [i \in 1..Len(allRecords) |-> allRecords[i].timestamp])

\* Array.from(new Set([...file1 metrics, ...file2 metrics]))
CombinedMetrics(f1, f2) == Uniq(AvailableOf(f1) \o AvailableOf(f2))

\* the loop of lines 50-76
ChartData(allRecords, availableMetrics, startTime, endTime) ==
  LET times == Timeline(startTime, endTime, TimeStep(startTime, endTime))
  IN [i \in 1..Len(times) |->
        DataPoint(allRecords, availableMetrics, startTime, times[i])]

\* combineFileData(file1Data, file2Data)
CombineFileData(f1, f2) ==
  IF BothNull(f1, f2) THEN EmptyCombined
  ELSE IF NoRecords(RecordsOf(f1) \o RecordsOf(f2)) THEN EmptyCombined
  ELSE LET allRecords == MergedPool(f1, f2)
       IN IF Len(allRecords) = 0 THEN RaisedTypeError
          ELSE LET startTime == allRecords[1].timestamp
                   endTime   == allRecords[Len(allRecords)].timestamp
                   availableMetrics == CombinedMetrics(f1, f2)
                   chartData == ChartData(allRecords, availableMetrics,
                                          startTime, endTime)
               IN [raised |-> FALSE, chartData |-> chartData,
                   summary |->
                     [duration |-> Norm(endTime - startTime, 1000),
                      availableMetrics |-> availableMetrics,
                      stats |-> [m \in MetricSet |->
                                   IF Contains(availableMetrics, m)
                                   THEN MetricStats(chartData, m)
                                   ELSE <<>>]]]

-----------------------------------------------------------------------------
(* cleanFitData, src/src/utils/dataSmoothing.ts.                           *)

\* alpha = 0.3
Alpha == <<3, 10>>

\* every value that is there
SmoothableWhenDefined(v) == IsDefined(v)

\* v !== undefined && v !== null && !isNaN(v) && v > 0
SmoothableValue(v) == IsDefined(v) /\ RPositive(v)

\* half of the window without the element in its middle
HalfWindowBelow(windowSize) == (windowSize - 1) \div 2

\* halfWindow = Math.floor(windowSize / 2)
HalfWindow(windowSize) == windowSize \div 2

\* movingAverage(values, windowSize)
MovingAverage(values, windowSize) ==
  LET halfWindow == HalfWindow(windowSize)
      n == Len(values)
  IN [i \in 1..n |->
        LET window == SubSeq(values, Max(1, i - halfWindow),
                             Min(n, i + halfWindow))
        IN RDivInt(SumOf(window), Len(window))]

\* exponentialSmoothing(values, alpha)
RECURSIVE ExponentialAt(_, _, _)
ExponentialAt(values, alpha, i) ==
  IF i = 1 THEN values[1]
  ELSE RAdd(RMul(alpha, values[i]),
            RMul(RSub(Num(1), alpha), ExponentialAt(values, alpha, i - 1)))

ExponentialSmoothing(values, alpha) ==
  [i \in 1..Len(values) |-> ExponentialAt(values, alpha, i)]

\* the lower of the two middle places of an even window
MiddleIndexLower(n) == (n + 1) \div 2

\* Math.floor(window.length / 2), counted from 1
MiddleIndex(n) == (n \div 2) + 1

\* medianFilter(values, windowSize)
MedianFilter(values, windowSize) ==
  LET halfWindow == HalfWindow(windowSize)
      n == Len(values)
  IN [i \in 1..n |->
        LET window == SortNumbers(SubSeq(values, Max(1, i - halfWindow),
                                         Min(n, i + halfWindow)))
        IN window[MiddleIndex(Len(window))]]

\* no test of the number of values
TooFewValuesNever(values, windowSize) == FALSE

\* values.length < windowSize
TooFewValues(values, windowSize) == Len(values) < windowSize

\* smoothMetricData(records, metric, {windowSize, method})
SmoothMetricData(records, metric, windowSize, method) ==
  IF Len(records) = 0 THEN records
  ELSE
    LET values == SelectSeq([i \in 1..Len(records) |-> records[i][metric]],
                            SmoothableValue)
    IN IF TooFewValues(values, windowSize) THEN records
       ELSE
         LET smoothedValues ==
               CASE method = "exponential" -> ExponentialSmoothing(values, Alpha)
                 [] method = "median" -> MedianFilter(values, windowSize)
                 [] OTHER -> MovingAverage(values, windowSize)
             \* smoothedIndex + 1 when the loop reaches record i
             Position(i) ==
               Cardinality({j \in 1..i : SmoothableValue(records[j][metric])})
         IN [i \in 1..Len(records) |->
               IF SmoothableValue(records[i][metric])
                  /\ Position(i) <= Len(smoothedValues)
               THEN [records[i] EXCEPT ![metric] = smoothedValues[Position(i)]]
               ELSE records[i]]

\* metricsToClean
MetricsToClean ==
  <<[metric |-> "heart_rate", windowSize |-> 7, method |-> "movingAverage"],
    [metric |-> "speed",      windowSize |-> 5, method |-> "median"],
    [metric |-> "power",      windowSize |-> 3, method |-> "movingAverage"],
    [metric |-> "cadence",    windowSize |-> 5, method |-> "movingAverage"],
    [metric |-> "altitude",   windowSize |-> 9, method |-> "movingAverage"]>>

\* the loop over metricsToClean, from pass k on
RECURSIVE CleanPasses(_, _)
CleanPasses(cleanedRecords, k) ==
  IF k > Len(MetricsToClean) THEN cleanedRecords
  ELSE CleanPasses(SmoothMetricData(cleanedRecords, MetricsToClean[k].metric,
                                    MetricsToClean[k].windowSize,
                                    MetricsToClean[k].method), k + 1)

\* cleanFitData(records)
CleanFitData(records) ==
  IF Len(records) = 0 THEN records ELSE CleanPasses(records, 1)

-----------------------------------------------------------------------------
(* The inputs.                                                             *)

\* every metric kept when it is not negative
ValidWhenNonNegative(metric, v) ==
  IF metric = "altitude" THEN TRUE ELSE RNonNegative(v)

\* the validity test extractData applies before it keeps a metric
ValidMetricValue(metric, v) ==
  CASE metric = "power"      -> RNonNegative(v)
    [] metric = "heart_rate" -> RPositive(v)
    [] metric = "speed"      -> RNonNegative(v)
    [] metric = "cadence"    -> RNonNegative(v)
    [] OTHER                 -> TRUE

\* availableMetrics as extractData builds it: the metrics held by at least
\* one record, in the order they are first met
DerivedMetrics(records) ==
  LET n == Len(records)
      k == Len(Metrics)
      met == SelectSeq([j \in 1..(n * k) |->
                          <<((j - 1) \div k) + 1, Metrics[((j - 1) % k) + 1]>>],
                       LAMBDA p : IsDefined(records[p[1]][p[2]]))
  IN Uniq([j \in 1..Len(met) |-> met[j][2]])

\* most records a source holds
MaxRecords == 2

\* most records the source of the cleaning pipeline holds
MaxPipelineRecords == 3

\* what one sample of a heart-rate recording holds, and one of a power
\* recording (0 is a power the decoder keeps)
HeartRateReadings ==
  {[power |-> Undefined, heart_rate |-> Undefined],
   [power |-> Undefined, heart_rate |-> Num(100)],
   [power |-> Undefined, heart_rate |-> Num(140)]}

PowerReadings ==
  {[power |-> Undefined, heart_rate |-> Undefined],
   [power |-> Num(0),    heart_rate |-> Undefined],
   [power |-> Num(200),  heart_rate |-> Undefined]}

SteadyHeartRate == {[power |-> Undefined, heart_rate |-> Num(100)]}

SteadyPower == {[power |-> Num(200), heart_rate |-> Undefined]}

PipelineReadings ==
  {[power |-> Undefined, heart_rate |-> Undefined],
   [power |-> Num(110),  heart_rate |-> Undefined],
   [power |-> Num(200),  heart_rate |-> Undefined]}

\* timestamps (ms): a span within one interpolation gap, not a multiple of
\* the step
SampleTimes == {0, 4500, 10000}

\* two recordings more than 30 s apart
GapTimes == {0, 36000, 38000}

\* spans below, at and above the point budget: 1.5 s, 2000 s, 2 h at 1 Hz
SpanTimes == {0, 1500, 2000000, 7199000}

PipelineTimes == {0, 1000}

NoExtras == {<<>>}

\* a metric a source declares although no record holds it
DeclaredExtras == {<<>>, <<"cadence">>}

RecordsOver(times, readings) ==
  {FitRecord(t, p.power, p.heart_rate, Undefined, Undefined, Undefined) :
     t \in times, p \in readings}

SeqsUpTo(S, n) == UNION {[1..k -> S] : k \in 0..n}

SourcesOver(times, readings, extras, maxLen) ==
  {Null} \cup
  {ProcessedFitData(recs, Uniq(DerivedMetrics(recs) \o extra)) :
     recs \in SeqsUpTo(RecordsOver(times, readings), maxLen), extra \in extras}

-----------------------------------------------------------------------------
(* The state machine: two sources are loaded (Init), optionally cleaned,   *)
(* then analysed.                                                          *)

\* nothing selected in the upload slots
NothingSelected ==
  /\ file1State = EmptySlot
  /\ file2State = EmptySlot
  /\ processing = <<>>

Start ==
  /\ cleanData = <<>>
  /\ combinedData = <<>>
  /\ phase = "upload"
  /\ callInput = <<>>
  /\ callOutput = <<>>
  /\ NothingSelected

\* the Sample Cleaner stage: cleanFitData over each source's records
CleanSource(f) ==
  IF IsNull(f) THEN Null
  ELSE ProcessedFitData(CleanFitData(RecordsOf(f)), AvailableOf(f))

CleanSources ==
  /\ phase = "upload"
  /\ Len(cleanData) = 0
  /\ cleanData' = <<CleanSource(file1Data), CleanSource(file2Data)>>
  /\ UNCHANGED <<file1State, file2State, processing>>
  /\ UNCHANGED <<file1Data, file2Data, combinedData, phase,
                 callInput, callOutput>>

\* what the analysis is given: the cleaned sources when they were cleaned
Input1 == IF Len(cleanData) = 0 THEN file1Data ELSE cleanData[1]

Input2 == IF Len(cleanData) = 0 THEN file2Data ELSE cleanData[2]

\* App.handleAnalyze, and the useMemo that calls combineFileData
Analyze ==
  /\ phase = "upload"
  /\ combinedData' = <<CombineFileData(Input1, Input2)>>
  /\ phase' = "analysis"
  /\ UNCHANGED <<file1State, file2State, processing>>
  /\ UNCHANGED <<file1Data, file2Data, cleanData, callInput, callOutput>>

\* two short recordings, a heart-rate one and a power one
Init ==
  /\ file1Data \in SourcesOver(SampleTimes, HeartRateReadings, DeclaredExtras,
                               MaxRecords)
  /\ file2Data \in SourcesOver(SampleTimes, PowerReadings, NoExtras, MaxRecords)
  /\ Start

Next == Analyze

Spec == Init /\ [][Next]_vars

\* two recordings more than the interpolation gap apart
InitGap ==
  /\ file1Data \in SourcesOver(GapTimes, HeartRateReadings, NoExtras, MaxRecords)
  /\ file2Data \in SourcesOver(GapTimes, PowerReadings, NoExtras, MaxRecords)
  /\ Start

SpecGap == InitGap /\ [][Next]_vars

\* long recordings
InitTimeline ==
  /\ file1Data \in SourcesOver(SpanTimes, SteadyHeartRate, NoExtras, MaxRecords)
  /\ file2Data \in SourcesOver(SpanTimes, SteadyPower, NoExtras, 1)
  /\ Start

SpecTimeline == InitTimeline /\ [][Next]_vars

\* one recording through the whole pipeline: cleaned, then analysed
InitPipeline ==
  /\ file1Data \in SourcesOver(PipelineTimes, PipelineReadings, NoExtras,
                               MaxPipelineRecords)
  /\ file2Data \in SourcesOver(PipelineTimes, HeartRateReadings, NoExtras, 0)
  /\ Start

NextPipeline == CleanSources \/ Analyze

SpecPipeline == InitPipeline /\ [][NextPipeline]_vars

-----------------------------------------------------------------------------
(* What the claims speak of.                                               *)

\* the maximum interpolation gap of the specification (30 seconds)
MaxInterpolationGap == 30000

\* the point budget of the variant src/unnamed/part_003
MaxPointsVariant == 3600

\* actualTimeStep of the variant:
\* duration > maxPoints ? Math.floor(duration * 1000 / maxPoints) : timeStep
VariantTimeStep(startTime, endTime) ==
  IF endTime - startTime > MaxPointsVariant * 1000
  THEN (endTime - startTime) \div MaxPointsVariant
  ELSE MinTimeStep

Analysed == phase = "analysis"

Grid == combinedData[1].chartData

Summary == combinedData[1].summary

\* the samples of both sources, as the analysis was given them
Pool == RecordsOf(Input1) \o RecordsOf(Input2)

PoolTimes == {Pool[k].timestamp : k \in 1..Len(Pool)}

FirstTime == CHOOSE t \in PoolTimes : \A u \in PoolTimes : t <= u

LastTime == CHOOSE t \in PoolTimes : \A u \in PoolTimes : u <= t

\* sample r holds a valid value of metric m
Holds(r, m) == IsDefined(r[m]) /\ ValidMetricValue(m, r[m])

\* the samples holding m at or before t, and the nearest of them
HoldersBefore(m, t) ==
  {k \in 1..Len(Pool) : Pool[k].timestamp <= t /\ Holds(Pool[k], m)}

NearestBefore(m, t) ==
  {k \in HoldersBefore(m, t) :
     \A j \in HoldersBefore(m, t) : Pool[j].timestamp <= Pool[k].timestamp}

HoldersAfter(m, t) ==
  {k \in 1..Len(Pool) : Pool[k].timestamp >= t /\ Holds(Pool[k], m)}

NearestAfter(m, t) ==
  {k \in HoldersAfter(m, t) :
     \A j \in HoldersAfter(m, t) : Pool[k].timestamp <= Pool[j].timestamp}

\* before.v + (after.v - before.v) (t - before.timestamp)
\*                                 / (after.timestamp - before.timestamp)
Interpolated(b, a, m, t) ==
  IF a.timestamp = b.timestamp THEN b[m]
  ELSE RAdd(b[m], Norm((a[m][1] * b[m][2] - b[m][1] * a[m][2]) * (t - b.timestamp),
                       a[m][2] * b[m][2] * (a.timestamp - b.timestamp)))

Between(v, x, y) ==
  \/ (RLeq(x, v) /\ RLeq(v, y))
  \/ (RLeq(y, v) /\ RLeq(v, x))

-----------------------------------------------------------------------------
(* The claims.                                                             *)

\* C1: for a non-empty pool the grid's first frame is at the minimum sample
\* timestamp and its last frame at the maximum sample timestamp, also when
\* the span is not a whole multiple of the step.
C1_GridSpansFirstToLast ==
  (Analysed /\ Len(Pool) > 0) =>
     /\ Len(Grid) > 0
     /\ Grid[1].timestamp = FirstTime
     /\ Grid[Len(Grid)].timestamp = LastTime

\* a heart-rate sample at 0 and a power sample at 1500 were analysed: the grid
\* ends at 1000, short of the last sample
C1_Witness ==
  /\ Analysed
  /\ RecordsOf(file1Data) = <<FitRecord(0, Undefined, Num(100), Undefined,
                                        Undefined, Undefined)>>
  /\ RecordsOf(file2Data) = <<FitRecord(1500, Num(200), Undefined, Undefined,
                                        Undefined, Undefined)>>
  /\ Len(Grid) = 2
  /\ Grid[2].timestamp = 1000

\* C2: the grid never holds more frames than the point budget: 2000 in
\* dataCombiner.ts, 3600 in the variant part_003.
C2_GridWithinPointBudget ==
  (Analysed /\ Len(Pool) > 0) =>
     /\ Len(Grid) <= MaxPoints
     /\ Len(Timeline(FirstTime, LastTime, VariantTimeStep(FirstTime, LastTime)))
          <= MaxPointsVariant

\* two hours at 1 Hz (first sample at 0, last at 7199000) were analysed: 2001
\* frames, and 3602 with the step of the variant
C2_Witness ==
  /\ Analysed
  /\ Len(Pool) > 0
  /\ LastTime - FirstTime = 7199000
  /\ Len(Grid) = MaxPoints + 1
  /\ Len(Timeline(FirstTime, LastTime, VariantTimeStep(FirstTime, LastTime)))
       = MaxPointsVariant + 2

\* C3: the frames' timestamps are strictly increasing, lie in
\* [firstTime, lastTime], and consecutive frames are at least 1000 ms apart.
C3_TimelineIncreasingInRange ==
  Analysed =>
     /\ \A i \in 1..Len(Grid) :
          FirstTime <= Grid[i].timestamp /\ Grid[i].timestamp <= LastTime
     /\ \A i \in 1..(Len(Grid) - 1) :
          /\ Grid[i].timestamp < Grid[i + 1].timestamp
          /\ Grid[i + 1].timestamp - Grid[i].timestamp >= 1000

\* a long recording was analysed: the step was enlarged above one second
C3_Witness ==
  /\ Analysed
  /\ Len(Grid) >= 2
  /\ Grid[2].timestamp - Grid[1].timestamp > 1000

\* C4: when a sample at exactly the frame's timestamp holds a valid value of
\* a metric, the frame's value of that metric is that sample's value.
C4_ExactMatchKeepsValue ==
  Analysed =>
     \A i \in 1..Len(Grid), m \in MetricSet :
        (\E k \in 1..Len(Pool) :
            Pool[k].timestamp = Grid[i].timestamp /\ Holds(Pool[k], m))
        => (\E k \in 1..Len(Pool) :
              /\ Pool[k].timestamp = Grid[i].timestamp
              /\ Holds(Pool[k], m)
              /\ Grid[i][m] = Pool[k][m])

\* four samples at timestamp 0, the last of them holding power 200: the one
\* frame shows the heart rate and no power
C4_Witness ==
  /\ Analysed
  /\ RecordsOf(file1Data) =
       <<FitRecord(0, Undefined, Num(100), Undefined, Undefined, Undefined),
         FitRecord(0, Undefined, Num(100), Undefined, Undefined, Undefined)>>
  /\ RecordsOf(file2Data) =
       <<FitRecord(0, Undefined, Undefined, Undefined, Undefined, Undefined),
         FitRecord(0, Num(200), Undefined, Undefined, Undefined, Undefined)>>
  /\ Len(Grid) = 1
  /\ Grid[1].heart_rate = Num(100)
  /\ Grid[1].power = Undefined

\* C5: the bracket is chosen per metric: when the nearest samples holding the
\* metric at or before and at or after the frame both exist and are at most
\* 30 s apart, the frame's value is the linear interpolation between them.
C5_PerMetricBracketInterpolates ==
  Analysed =>
     \A i \in 1..Len(Grid), m \in MetricSet :
        LET t == Grid[i].timestamp
        IN (/\ NearestBefore(m, t) /= {}
            /\ NearestAfter(m, t) /= {}
            /\ \A b \in NearestBefore(m, t), a \in NearestAfter(m, t) :
                  Pool[a].timestamp - Pool[b].timestamp <= MaxInterpolationGap)
           => \E b \in NearestBefore(m, t), a \in NearestAfter(m, t) :
                 Grid[i][m] = Interpolated(Pool[b], Pool[a], m, t)

\* heart rates 100 at 0 and 140 at 10000, and a power sample of the other
\* source at 4500: the frame at 5000 shows 140, not 120
C5_Witness ==
  /\ Analysed
  /\ RecordsOf(file1Data) =
       <<FitRecord(0, Undefined, Num(100), Undefined, Undefined, Undefined),
         FitRecord(10000, Undefined, Num(140), Undefined, Undefined, Undefined)>>
  /\ RecordsOf(file2Data) =
       <<FitRecord(4500, Num(200), Undefined, Undefined, Undefined, Undefined)>>
  /\ Grid[5].timestamp = 4000 /\ Grid[5].heart_rate = Num(100)
  /\ Grid[6].timestamp = 5000 /\ Grid[6].heart_rate = Num(140)

\* C6: no value is derived from samples beyond the maximum interpolation
\* gap: a value is interpolated only inside a bracket at most the gap wide,
\* and is otherwise the value of a sample within the gap of the frame.
C6_NoValueBeyondMaxGap ==
  Analysed =>
     \A i \in 1..Len(Grid), m \in MetricSet :
        LET t == Grid[i].timestamp
        IN IsDefined(Grid[i][m]) =>
             \/ /\ NearestBefore(m, t) /= {}
                /\ NearestAfter(m, t) /= {}
                /\ \A b \in NearestBefore(m, t), a \in NearestAfter(m, t) :
                      Pool[a].timestamp - Pool[b].timestamp <= MaxInterpolationGap
             \/ \E k \in 1..Len(Pool) :
                   /\ Holds(Pool[k], m)
                   /\ Abs(Pool[k].timestamp - t) <= MaxInterpolationGap
                   /\ Grid[i][m] = Pool[k][m]

\* heart rates 100 at 0 and 140 at 36000, nothing between: the frame at 18000
\* shows 120, interpolated across 36 seconds
C6_Witness ==
  /\ Analysed
  /\ IsNull(file2Data)
  /\ RecordsOf(file1Data) =
       <<FitRecord(0, Undefined, Num(100), Undefined, Undefined, Undefined),
         FitRecord(36000, Undefined, Num(140), Undefined, Undefined, Undefined)>>
  /\ Grid[19].timestamp = 18000
  /\ Grid[19].heart_rate = Num(120)

\* source A holds only metric ma, source B only metric mb, and their time
\* ranges are more than the maximum gap apart
HoldsOnly(f, m) ==
  /\ \E k \in 1..Len(RecordsOf(f)) : Holds(RecordsOf(f)[k], m)
  /\ \A k \in 1..Len(RecordsOf(f)), x \in MetricSet \ {m} :
        ~IsDefined(RecordsOf(f)[k][x])

TimesOf(f) == {RecordsOf(f)[k].timestamp : k \in 1..Len(RecordsOf(f))}

FarApart(fa, fb) ==
  \/ \A ta \in TimesOf(fa), tb \in TimesOf(fb) : tb - ta > MaxInterpolationGap
  \/ \A ta \in TimesOf(fa), tb \in TimesOf(fb) : ta - tb > MaxInterpolationGap

InRangeOf(f, t) ==
  /\ \E u \in TimesOf(f) : u <= t
  /\ \E u \in TimesOf(f) : t <= u

AbsentOutsideOwnRange(fa, ma, fb, mb) ==
  (HoldsOnly(fa, ma) /\ HoldsOnly(fb, mb) /\ FarApart(fa, fb)) =>
     \A i \in 1..Len(Grid) :
        /\ InRangeOf(fb, Grid[i].timestamp) => Grid[i][ma] = Undefined
        /\ InRangeOf(fa, Grid[i].timestamp) => Grid[i][mb] = Undefined

\* C7: with A holding only power and B only heart_rate, over time ranges
\* further apart than the maximum gap, every frame inside B's range has power
\* absent (not 0) and every frame inside A's range has heart_rate absent.
C7_AbsenceIsNotZero ==
  Analysed =>
     /\ AbsentOutsideOwnRange(Input1, "power", Input2, "heart_rate")
     /\ AbsentOutsideOwnRange(Input2, "power", Input1, "heart_rate")

\* a power recording and a later heart-rate recording were analysed; the
\* grid has frames inside both ranges, each showing its own metric
C7_Witness ==
  /\ Analysed
  /\ HoldsOnly(Input2, "power") /\ HoldsOnly(Input1, "heart_rate")
  /\ FarApart(Input2, Input1)
  /\ \E i, j \in 1..Len(Grid) :
        /\ i /= j
        /\ InRangeOf(Input1, Grid[i].timestamp)
        /\ InRangeOf(Input1, Grid[j].timestamp)
        /\ IsDefined(Grid[i].heart_rate) /\ Grid[i].power = Undefined
  /\ \E i \in 1..Len(Grid) :
        /\ InRangeOf(Input2, Grid[i].timestamp)
        /\ IsDefined(Grid[i].power) /\ Grid[i].heart_rate = Undefined

\* the frames and metrics for which interpolateDataPoint interpolates
Interpolates(i, m) ==
  LET before == BeforeRecord(MergedPool(Input1, Input2), Grid[i].timestamp)
      after  == AfterRecord(MergedPool(Input1, Input2), Grid[i].timestamp)
  IN /\ Contains(Summary.availableMetrics, m)
     /\ Len(before) > 0 /\ Len(after) > 0
     /\ before[1].timestamp /= after[1].timestamp
     /\ UsableValue(before[1][m]) /\ UsableValue(after[1][m])

\* C8: a value produced by linear interpolation lies between before.v and
\* after.v inclusive; the time ratio used is within [0, 1].
C8_InterpolationWithinBracket ==
  Analysed =>
     \A i \in 1..Len(Grid), m \in MetricSet :
        Interpolates(i, m) =>
          LET pool   == MergedPool(Input1, Input2)
              before == BeforeRecord(pool, Grid[i].timestamp)[1]
              after  == AfterRecord(pool, Grid[i].timestamp)[1]
              ratio  == TimeRatio(Grid[i].timestamp, before.timestamp,
                                  after.timestamp)
          IN /\ Between(Grid[i][m], before[m], after[m])
             /\ RLeq(Num(0), ratio) /\ RLeq(ratio, Num(1))

\* a frame strictly between two heart rates of 100 and 140 was interpolated
C8_Witness ==
  /\ Analysed
  /\ \E i \in 1..Len(Grid) :
        /\ Interpolates(i, "heart_rate")
        /\ RLess(Num(100), Grid[i].heart_rate)
        /\ RLess(Grid[i].heart_rate, Num(140))

\* C9: with both inputs null, or no sample in either source, the result is
\* the empty one (empty grid, duration 0, no metrics, no stats) whatever
\* the inputs declare as availableMetrics.
C9_NoSamplesGivesEmptyResult ==
  (Analysed /\ Len(Pool) = 0) =>
     /\ ~combinedData[1].raised
     /\ Grid = <<>>
     /\ Summary.duration = Num(0)
     /\ Summary.availableMetrics = <<>>
     /\ \A m \in MetricSet : Summary.stats[m] = <<>>

\* a source without samples that declares a metric was analysed
C9_Witness ==
  /\ Analysed
  /\ ~IsNull(file1Data)
  /\ Len(Pool) = 0
  /\ Len(AvailableOf(file1Data)) > 0
  /\ Grid = <<>>

\* a source is degenerate: no sample, one sample, or no metric in any sample
Degenerate(f) ==
  \/ Len(RecordsOf(f)) <= 1
  \/ \A k \in 1..Len(RecordsOf(f)), m \in MetricSet :
        ~IsDefined(RecordsOf(f)[k][m])

\* C10: the pipeline raises for no input: cleanFitData and combineFileData
\* return a result for empty sources, for a single-sample pool (one frame at
\* that timestamp, duration 0) and for samples holding none of the metrics.
C10_DegenerateInputsReturn ==
  /\ Len(cleanData) > 0 =>
        /\ Degenerate(file1Data) => cleanData[1] = file1Data
        /\ Degenerate(file2Data) => cleanData[2] = file2Data
  /\ Analysed =>
        /\ ~combinedData[1].raised
        /\ Len(Pool) = 0 => (Grid = <<>> /\ Summary.duration = Num(0))
        /\ Len(Pool) = 1 =>
              /\ Len(Grid) = 1
              /\ Grid[1].timestamp = Pool[1].timestamp
              /\ Summary.duration = Num(0)
        /\ (Len(Pool) > 0
            /\ \A k \in 1..Len(Pool), m \in MetricSet : ~IsDefined(Pool[k][m]))
           => /\ Len(Grid) >= 1
              /\ \A i \in 1..Len(Grid), m \in MetricSet : Grid[i][m] = Undefined
              /\ \A m \in MetricSet : Summary.stats[m] = <<>>

\* a single sample was cleaned and then analysed into one frame
C10_Witness ==
  /\ Analysed
  /\ Len(cleanData) > 0
  /\ Len(Pool) = 1
  /\ Len(Grid) = 1

\* allRecords as combineFileData holds it after the sort of line 33
MergedNow == MergedPool(Input1, Input2)

\* how often sample r occurs in seq
Occurrences(seq, r) == Cardinality({j \in 1..Len(seq) : seq[j] = r})

\* C11: the merged pool holds every sample of both sources, samples of equal
\* timestamp included, and is sorted ascending by timestamp, whatever order
\* the samples arrive in.
C11_MergedPoolKeepsAllSorted ==
  Analysed =>
     /\ Len(MergedNow) = Len(Pool)
     /\ \A k \in 1..Len(Pool) :
           Occurrences(MergedNow, Pool[k]) = Occurrences(Pool, Pool[k])
     /\ \A i \in 1..(Len(MergedNow) - 1) :
           MergedNow[i].timestamp <= MergedNow[i + 1].timestamp
     /\ Len(Pool) > 0 => Grid[1].timestamp = MergedNow[1].timestamp

\* samples arrived out of time order, and the two sources hold a sample of the
\* same timestamp: both are in the pool
C11_Witness ==
  /\ Analysed
  /\ \E k \in 1..(Len(Pool) - 1) : Pool[k].timestamp > Pool[k + 1].timestamp
  /\ \E i \in 1..Len(RecordsOf(Input1)), j \in 1..Len(RecordsOf(Input2)) :
        /\ RecordsOf(Input1)[i].timestamp = RecordsOf(Input2)[j].timestamp
        /\ RecordsOf(Input1)[i] /= RecordsOf(Input2)[j]
        /\ Occurrences(MergedNow, RecordsOf(Input1)[i]) >= 1
        /\ Occurrences(MergedNow, RecordsOf(Input2)[j]) >= 1
  /\ Len(MergedNow) >= 3

\* C12: for a non-empty pool the summary's duration is (maximum timestamp -
\* minimum timestamp) / 1000 over all samples, whatever order they arrive
\* in, and so never negative.
C12_DurationIsSpanOfPool ==
  (Analysed /\ Len(Pool) > 0) =>
     /\ Summary.duration = Norm(LastTime - FirstTime, 1000)
     /\ RNonNegative(Summary.duration)

\* the first sample to arrive is later than the last to arrive, and the
\* duration is the positive span between the earliest and the latest
C12_Witness ==
  /\ Analysed
  /\ Len(Pool) >= 2
  /\ Pool[1].timestamp > Pool[Len(Pool)].timestamp
  /\ RPositive(Summary.duration)
  /\ Summary.duration = Norm(LastTime - FirstTime, 1000)

-----------------------------------------------------------------------------
(* The statistics of the combined summary.                                 *)

\* what one sample of a ride holds: a power of 0 or 200 (coasting,
\* pedalling), or a speed with an altitude below or above sea level
StatReadings ==
  {[power |-> Num(0),   speed |-> Undefined, altitude |-> Undefined],
   [power |-> Num(200), speed |-> Undefined, altitude |-> Undefined],
   [power |-> Undefined, speed |-> <<5, 2>>, altitude |-> Num(-5)],
   [power |-> Undefined, speed |-> Num(3),   altitude |-> <<52, 5>>]}

StatTimes == {0, 1000, 3000}

StatRecords ==
  {FitRecord(t, p.power, Undefined, p.speed, Undefined, p.altitude) :
     t \in StatTimes, p \in StatReadings}

\* one recording, its metrics declared as extractData declares them
InitStats ==
  /\ file1Data \in {ProcessedFitData(recs, DerivedMetrics(recs)) :
                       recs \in SeqsUpTo(StatRecords, MaxRecords)}
  /\ file2Data = Null
  /\ Start

SpecStats == InitStats /\ [][Next]_vars

\* the values of metric m that the frames of the grid hold
GridValues(m) ==
  SelectSeq([i \in 1..Len(Grid) |-> Grid[i][m]], IsDefined)

\* avg, max and min over every value the grid holds, rounded for display
StatsOverGridValues(m) ==
  LET values == GridValues(m)
      precision == GetMetricPrecision(m)
  IN IF Len(values) > 0
     THEN <<[avg |-> RoundTo(RDivInt(SumOf(values), Len(values)), precision),
             max |-> RoundTo(MaxOf(values), precision),
             min |-> RoundTo(MinOf(values), precision)]>>
     ELSE <<>>

\* C13: for every available metric the stats are taken over exactly the
\* values the grid holds: a value of 0 or a negative altitude counts, an
\* absent point does not.
C13_StatsOverPresentValues ==
  Analysed =>
     \A m \in MetricSet :
        Contains(Summary.availableMetrics, m)
        => Summary.stats[m] = StatsOverGridValues(m)

\* power 0 at 0 and 200 at 1000: the grid holds both, the stats count 200 only
C13_Witness ==
  /\ Analysed
  /\ Len(Grid) = 2
  /\ Grid[1].power = Num(0)
  /\ Grid[2].power = Num(200)
  /\ Summary.stats["power"] =
       <<[avg |-> Num(200), max |-> Num(200), min |-> Num(200)]>>
  /\ StatsOverGridValues("power") =
       <<[avg |-> Num(100), max |-> Num(200), min |-> Num(0)]>>

\* the values of metric m the statistics keep (the filter of lines 82-84)
KeptValues(m) ==
  SelectSeq([i \in 1..Len(Grid) |-> Grid[i][m]], StatValue)

\* the display precision: tenths for speed, whole units otherwise
DisplayPrecision(m) == IF m = "speed" THEN 10 ELSE 1

\* x is a multiple of 1 / precision, and no such multiple is nearer to raw
RoundedFrom(x, raw, precision) ==
  /\ RMulInt(x, precision)[2] = 1
  /\ RLeq(RMulInt(RSub(x, raw), 2 * precision), Num(1))
  /\ RLeq(RMulInt(RSub(raw, x), 2 * precision), Num(1))

\* C14: every avg, max and min of the stats is the multiple of the metric's
\* display precision (0.1 for speed, 1 for the other metrics) nearest to the
\* unrounded statistic.
C14_StatsRoundedToPrecision ==
  Analysed =>
     \A m \in MetricSet :
        Summary.stats[m] /= <<>> =>
          LET values == KeptValues(m)
              st == Summary.stats[m][1]
          IN /\ Len(values) > 0
             /\ RoundedFrom(st.avg, RDivInt(SumOf(values), Len(values)),
                            DisplayPrecision(m))
             /\ RoundedFrom(st.max, MaxOf(values), DisplayPrecision(m))
             /\ RoundedFrom(st.min, MinOf(values), DisplayPrecision(m))

\* speeds 2.5 and 3 average 2.75 and are shown as 2.8; an altitude of 10.4
\* is shown as 10
C14_Witness ==
  /\ Analysed
  /\ Len(KeptValues("speed")) = 2
  /\ SumOf(KeptValues("speed")) = <<11, 2>>
  /\ Summary.stats["speed"][1].avg = <<14, 5>>
  /\ MaxOf(KeptValues("altitude")) = <<52, 5>>
  /\ Summary.stats["altitude"][1].max = Num(10)

\* some sample of the pool holds a valid value of metric m
HeldBySomeSample(m) == \E k \in 1..Len(Pool) : Holds(Pool[k], m)

C16_StatsEntryOnlyWithValues ==
  Analysed =>
     \A m \in MetricSet :
        Summary.stats[m] /= <<>> =>
           /\ Len(GridValues(m)) > 0
           /\ IsDefined(Summary.stats[m][1].avg)
           /\ IsDefined(Summary.stats[m][1].max)
           /\ IsDefined(Summary.stats[m][1].min)

\* cadence is available and in no frame: it has no entry, while the heart
\* rate, which the grid holds, has one
C16_Witness ==
  /\ Analysed
  /\ Contains(Summary.availableMetrics, "cadence")
  /\ Len(GridValues("cadence")) = 0
  /\ Summary.stats["cadence"] = <<>>
  /\ Len(GridValues("heart_rate")) > 0
  /\ Summary.stats["heart_rate"] /= <<>>

-----------------------------------------------------------------------------
(* calculateSummary, src/src/utils/fitParser.ts.  The distance of a record *)
(* and the summary's totalDistance are left out.                           *)

\* the summary of no records (lines 123-137)
ZeroSummary ==
  [duration |-> Num(0), avgPower |-> Num(0), maxPower |-> Num(0),
   avgHeartRate |-> Num(0), maxHeartRate |-> Num(0),
   avgSpeed |-> Num(0), maxSpeed |-> Num(0),
   avgCadence |-> Num(0), maxCadence |-> Num(0),
   elevationGain |-> Num(0), minAltitude |-> Num(0), maxAltitude |-> Num(0)]

\* records.map(r => r[metric]).filter(v => v !== undefined && v !== null
\*                                          && !isNaN(v))
MetricValues(records, metric) ==
  SelectSeq([i \in 1..Len(records) |-> records[i][metric]], IsDefined)

\* the test of line 187 without curr > prev
ClimbsOrDescends(prev, curr) == IsDefined(prev) /\ IsDefined(curr)

\* prev !== undefined && curr !== undefined && curr > prev
Climbs(prev, curr) == IsDefined(prev) /\ IsDefined(curr) /\ RLess(prev, curr)

\* what the loop of lines 184-190 adds at each i
AltitudeSteps(records) ==
  [i \in 1..(Len(records) - 1) |->
     IF Climbs(records[i].altitude, records[i + 1].altitude)
     THEN RSub(records[i + 1].altitude, records[i].altitude)
     ELSE Num(0)]

\* Math.round(elevationGain) after the loop
ElevationGain(records) == Num(MathRound(SumOf(AltitudeSteps(records))))

\* calculateSummary(records, metrics)
CalculateSummary(records, metrics) ==
  IF Len(records) = 0 THEN ZeroSummary
  ELSE
    LET Has(metric) == /\ Contains(metrics, metric)
                       /\ Len(MetricValues(records, metric)) > 0
        Avg(metric) == RDivInt(SumOf(MetricValues(records, metric)),
                               Len(MetricValues(records, metric)))
        Whole(x) == Num(MathRound(x))
        AvgWhole(metric) ==
          IF Has(metric) THEN Whole(Avg(metric)) ELSE Undefined
        MaxWhole(metric) ==
          IF Has(metric) THEN Whole(MaxOf(MetricValues(records, metric)))
          ELSE Undefined
    IN [duration |-> Norm(records[Len(records)].timestamp
                            - records[1].timestamp, 1000),
        avgPower |-> AvgWhole("power"), maxPower |-> MaxWhole("power"),
        avgHeartRate |-> AvgWhole("heart_rate"),
        maxHeartRate |-> MaxWhole("heart_rate"),
        avgSpeed |-> IF Has("speed") THEN RoundTo(Avg("speed"), 10)
                     ELSE Undefined,
        maxSpeed |-> IF Has("speed")
                     THEN RoundTo(MaxOf(MetricValues(records, "speed")), 10)
                     ELSE Undefined,
        avgCadence |-> AvgWhole("cadence"), maxCadence |-> MaxWhole("cadence"),
        elevationGain |-> IF Has("altitude") THEN ElevationGain(records)
                          ELSE Undefined,
        minAltitude |-> IF Has("altitude")
                        THEN Whole(MinOf(MetricValues(records, "altitude")))
                        ELSE Undefined,
        maxAltitude |-> MaxWhole("altitude")]

\* most records calculateSummary is given
MaxSummaryRecords == 4

\* the altitude a record holds, if any (metres)
AltitudeReadings ==
  {Undefined, Num(95), Num(100), Num(108), Num(110), <<201, 2>>}

\* the records of a file in the order the file gives them: one a second, in
\* time order or in reverse, each with a heart rate and maybe an altitude
ArrivalOrders == {"chronological", "reversed"}

RecordsInOrder(altitudes, order) ==
  [i \in 1..Len(altitudes) |->
     FitRecord(IF order = "chronological" THEN i * 1000
               ELSE (Len(altitudes) + 1 - i) * 1000,
               Undefined, Num(120), Undefined, Undefined, altitudes[i])]

\* no analysis is under way: a function is called on its own
Idle ==
  /\ file1Data = Null
  /\ file2Data = Null
  /\ cleanData = <<>>
  /\ combinedData = <<>>
  /\ phase = "upload"
  /\ NothingSelected

InitSummary ==
  /\ callInput \in {<<[fn |-> "calculateSummary",
                        records |-> RecordsInOrder(altitudes, order)]>> :
                       altitudes \in SeqsUpTo(AltitudeReadings,
                                              MaxSummaryRecords),
                       order \in ArrivalOrders}
  /\ callOutput = <<>>
  /\ Idle

\* extractData, line 112: calculateSummary over the records it kept and the
\* metrics it found
Summarize ==
  /\ Len(callInput) > 0
  /\ Len(callOutput) = 0
  /\ callInput[1].fn = "calculateSummary"
  /\ callOutput' = <<CalculateSummary(callInput[1].records,
                                      DerivedMetrics(callInput[1].records))>>
  /\ UNCHANGED <<file1State, file2State, processing>>
  /\ UNCHANGED <<file1Data, file2Data, cleanData, combinedData, phase,
                 callInput>>

NextSummary == Summarize

SpecSummary == InitSummary /\ [][NextSummary]_vars

Summarized ==
  /\ Len(callOutput) > 0
  /\ callInput[1].fn = "calculateSummary"

GivenRecords == callInput[1].records

\* the altitudes of the samples that hold one, in the order given
AltitudeSeries(records) == MetricValues(records, "altitude")

\* the same in chronological order
ChronologicalAltitudes(records) ==
  AltitudeSeries(SortBy(records,
                        [i \in 1..Len(records) |-> records[i].timestamp]))

\* the sum of max(0, series[i] - series[i - 1])
PositiveDeltas(series) ==
  SumOf([i \in 1..(Len(series) - 1) |->
           IF RLess(series[i], series[i + 1])
           THEN RSub(series[i + 1], series[i]) ELSE Num(0)])

\* C17: the elevation gain is the sum of the positive differences between
\* consecutive altitudes of the samples that hold one, in chronological order:
\* samples without altitude in between and samples given out of time order
\* do not change it.
C17_ElevationGainIsPositiveDeltas ==
  (Summarized /\ Len(AltitudeSeries(GivenRecords)) > 0) =>
     callOutput[1].elevationGain
       = PositiveDeltas(ChronologicalAltitudes(GivenRecords))

\* altitudes 100 and 110 with a sample without altitude between them, in
\* time order: the gain is 0, not 10
C17_Witness ==
  /\ Summarized
  /\ Len(GivenRecords) = 3
  /\ GivenRecords[1].timestamp = 1000 /\ GivenRecords[1].altitude = Num(100)
  /\ GivenRecords[2].timestamp = 2000 /\ GivenRecords[2].altitude = Undefined
  /\ GivenRecords[3].timestamp = 3000 /\ GivenRecords[3].altitude = Num(110)
  /\ callOutput[1].elevationGain = Num(0)

\* no altitude of the series is above the one before it
NonIncreasing(series) ==
  \A i \in 1..(Len(series) - 1) : RLeq(series[i + 1], series[i])

\* C18: the elevation gain is never negative, and is 0 when the altitude
\* series only descends.
C18_ElevationGainNonNegative ==
  Summarized =>
     /\ IsDefined(callOutput[1].elevationGain)
          => RNonNegative(callOutput[1].elevationGain)
     /\ (/\ Len(AltitudeSeries(GivenRecords)) > 0
         /\ NonIncreasing(AltitudeSeries(GivenRecords)))
        => callOutput[1].elevationGain = Num(0)

\* four samples descending from 110 to 95 were summarised: the gain is 0
C18_Witness ==
  /\ Summarized
  /\ AltitudeSeries(GivenRecords) = <<Num(110), Num(108), Num(100), Num(95)>>
  /\ callOutput[1].elevationGain = Num(0)

-----------------------------------------------------------------------------
(* removeOutliers, src/src/utils/dataSmoothing.ts.                         *)

RMax(a, b) == IF RLess(a, b) THEN b ELSE a

RMin(a, b) == IF RLess(b, a) THEN b ELSE a

\* q1Index = Math.floor(sorted.length * 0.25), counted from 1
Q1Index(n) == (n \div 4) + 1

\* the third quartile taken at rank ceil(0.75 n)
Q3IndexCeiling(n) == (3 * n + 3) \div 4

\* q3Index = Math.floor(sorted.length * 0.75), counted from 1
Q3Index(n) == ((3 * n) \div 4) + 1

\* 1.5 * iqr
OneAndAHalf(iqr) == RDivInt(RMulInt(iqr, 3), 2)

\* lowerBound after the switch of lines 137-154
LowerBound(q1, q3, metric) ==
  LET lowerBound == RSub(q1, OneAndAHalf(RSub(q3, q1)))
  IN CASE metric \in {"speed", "power", "cadence"} -> RMax(Num(0), lowerBound)
       [] metric = "heart_rate" -> RMax(Num(40), lowerBound)
       [] OTHER -> lowerBound

\* upperBound after the switch
UpperBound(q1, q3, metric) ==
  LET upperBound == RAdd(q3, OneAndAHalf(RSub(q3, q1)))
  IN CASE metric = "speed"      -> RMin(Num(80), upperBound)
       [] metric = "heart_rate" -> RMin(Num(220), upperBound)
       [] metric = "power"      -> RMin(Num(2000), upperBound)
       [] metric = "cadence"    -> RMin(Num(200), upperBound)
       [] OTHER -> upperBound

\* removeOutliers(values, metric)
RemoveOutliers(values, metric) ==
  IF Len(values) < 4 THEN values
  ELSE LET sorted == SortNumbers(values)
           q1 == sorted[Q1Index(Len(sorted))]
           q3 == sorted[Q3Index(Len(sorted))]
           lowerBound == LowerBound(q1, q3, metric)
           upperBound == UpperBound(q1, q3, metric)
       IN SelectSeq(values, LAMBDA value : /\ RLeq(lowerBound, value)
                                         /\ RLeq(value, upperBound))

\* most values removeOutliers is given, and how often it is run in a row
MaxOutlierValues == 5

FilterRuns == 2

\* values below, inside and above the hard ranges of the metrics
OutlierValues == {Num(-20), Num(0), Num(60), Num(100), Num(110), Num(2500)}

InitOutliers ==
  /\ callInput \in {<<[fn |-> "removeOutliers", values |-> values,
                        metric |-> metric]>> :
                       values \in SeqsUpTo(OutlierValues, MaxOutlierValues),
                       metric \in MetricSet}
  /\ callOutput = <<>>
  /\ Idle

\* removeOutliers run on the values given, then on what it returned;
\* callOutput holds the results in turn (the values given are a copy's source:
\* line 125 sorts [...values], so the array given stays as it is)
FilterOutliers ==
  /\ Len(callInput) > 0
  /\ callInput[1].fn = "removeOutliers"
  /\ Len(callOutput) < FilterRuns
  /\ callOutput' =
       Append(callOutput,
              RemoveOutliers(IF Len(callOutput) = 0 THEN callInput[1].values
                             ELSE callOutput[Len(callOutput)],
                             callInput[1].metric))
  /\ UNCHANGED <<file1State, file2State, processing>>
  /\ UNCHANGED <<file1Data, file2Data, cleanData, combinedData, phase,
                 callInput>>

NextOutliers == FilterOutliers

SpecOutliers == InitOutliers /\ [][NextOutliers]_vars

-----------------------------------------------------------------------------
(* The outlier filter: claims C19 and C20.                                 *)

\* removeOutliers has been run on the values given
Filtered ==
  /\ Len(callInput) > 0
  /\ callInput[1].fn = "removeOutliers"
  /\ Len(callOutput) >= 1

\* and run again on what it returned
Refiltered == Filtered /\ Len(callOutput) >= 2

GivenValues == callInput[1].values

GivenMetric == callInput[1].metric

\* C19: removeOutliers is idempotent: run on what it returned, it returns
\* the same values again.
C19_RemoveOutliersIdempotent ==
  Refiltered => callOutput[2] = callOutput[1]

C19_Witness ==
  /\ Refiltered
  /\ GivenMetric = "heart_rate"
  /\ GivenValues = <<Num(60), Num(100), Num(110), Num(110), Num(110)>>
  /\ callOutput[1] = <<Num(100), Num(110), Num(110), Num(110)>>
  /\ callOutput[2] = <<Num(110), Num(110), Num(110)>>

\* the hard range of a metric, <<>> where it has no bound on that side
LowHard(metric) ==
  CASE metric \in {"speed", "power", "cadence"} -> Num(0)
    [] metric = "heart_rate" -> Num(40)
    [] OTHER -> Undefined

HighHard(metric) ==
  CASE metric = "speed" -> Num(80)
    [] metric = "heart_rate" -> Num(220)
    [] metric = "power" -> Num(2000)
    [] metric = "cadence" -> Num(200)
    [] OTHER -> Undefined

\* max(lowHard, q1 - 1.5 iqr) <= v <= min(highHard, q3 + 1.5 iqr)
WithinBounds(v, q1, q3, metric) ==
  LET spread == OneAndAHalf(RSub(q3, q1))
  IN /\ RLeq(RSub(q1, spread), v)
     /\ RLeq(v, RAdd(q3, spread))
     /\ IsDefined(LowHard(metric)) => RLeq(LowHard(metric), v)
     /\ IsDefined(HighHard(metric)) => RLeq(v, HighHard(metric))

\* the values within the bounds, in the order given
KeptInOrder(values, q1, q3, metric) ==
  SelectSeq(values, LAMBDA v : WithinBounds(v, q1, q3, metric))

\* nearest-rank quartile: the value at rank ceil(quarters * n / 4) of the
\* ascending values
NearestRankQuartile(values, quarters) ==
  SortNumbers(values)[(quarters * Len(values) + 3) \div 4]

\* the value at rank floor(quarters * n / 4) + 1 of the ascending values
FloorRankQuartile(values, quarters) ==
  SortNumbers(values)[((quarters * Len(values)) \div 4) + 1]

\* C20 as stated: fewer than 4 values come back unchanged; otherwise exactly
\* the values within max(lowHard, q1 - 1.5 iqr) and min(highHard, q3 + 1.5 iqr)
\* come back in their original order, q1 and q3 being the nearest-rank
\* quartiles.
C20_KeepsWithinNearestRankBounds ==
  Filtered =>
    callOutput[1] =
      IF Len(GivenValues) < 4 THEN GivenValues
      ELSE KeptInOrder(GivenValues, NearestRankQuartile(GivenValues, 1),
                       NearestRankQuartile(GivenValues, 3), GivenMetric)

\* C20 amended: the same with q1 and q3 the values at ranks floor(n/4) + 1 and
\* floor(3n/4) + 1 of the ascending values (one rank above nearest-rank when
\* n is a multiple of 4).
C20_KeepsWithinFloorRankBounds ==
  Filtered =>
    callOutput[1] =
      IF Len(GivenValues) < 4 THEN GivenValues
      ELSE KeptInOrder(GivenValues, FloorRankQuartile(GivenValues, 1),
                       FloorRankQuartile(GivenValues, 3), GivenMetric)

\* four heart rates given out of order, two of them outside the hard range
C20_Witness ==
  /\ Filtered
  /\ GivenMetric = "heart_rate"
  /\ GivenValues = <<Num(2500), Num(60), Num(0), Num(100)>>
  /\ callOutput[1] = <<Num(60), Num(100)>>

-----------------------------------------------------------------------------
(* smoothMetricData and cleanFitData on their own.                         *)

\* most records smoothMetricData is given, and most cleanFitData is given
MaxSmoothRecords == 4

MaxCleanRecords == 5

\* what a record given to smoothMetricData holds: no power, a power of 0, a
\* plausible power, one above the hard range; with or without a heart rate
SmoothReadings ==
  {[power |-> p, heart_rate |-> h, cadence |-> Undefined] :
     p \in {Undefined, Num(0), Num(100), Num(2500)},
     h \in {Undefined, Num(120)}}

\* what a record given to cleanFitData holds: a power and maybe a cadence
CleanReadings ==
  {[power |-> p, heart_rate |-> Undefined, cadence |-> c] :
     p \in {Num(100), Num(2500)},
     c \in {Undefined, Num(80), Num(90)}}

\* records one second apart holding the readings given
RecordsHolding(readings) ==
  [i \in 1..Len(readings) |->
     FitRecord(i * 1000, readings[i].power, readings[i].heart_rate, Undefined,
               readings[i].cadence, Undefined)]

\* the options smoothMetricData is called with: the power smoothed over an
\* even and an odd window by each of the three methods
SmoothingOptions ==
  {[metric |-> m, windowSize |-> w, method |-> meth] :
     m \in {"power"}, w \in {2, 3},
     meth \in {"movingAverage", "exponential", "median"}}

InitSmoothing ==
  /\ callInput \in
       {<<[fn |-> "smoothMetricData", records |-> RecordsHolding(readings),
           options |-> <<o>>]>> :
          readings \in SeqsUpTo(SmoothReadings, MaxSmoothRecords),
          o \in SmoothingOptions}
       \cup
       {<<[fn |-> "cleanFitData", records |-> RecordsHolding(readings),
           options |-> <<>>]>> :
          readings \in SeqsUpTo(CleanReadings, MaxCleanRecords)}
  /\ callOutput = <<>>
  /\ Idle

\* smoothMetricData(records, metric, options)
SmoothMetric ==
  /\ Len(callInput) > 0
  /\ callInput[1].fn = "smoothMetricData"
  /\ Len(callOutput) = 0
  /\ callOutput' =
       <<SmoothMetricData(callInput[1].records, callInput[1].options[1].metric,
                          callInput[1].options[1].windowSize,
                          callInput[1].options[1].method)>>
  /\ UNCHANGED <<file1State, file2State, processing>>
  /\ UNCHANGED <<file1Data, file2Data, cleanData, combinedData, phase,
                 callInput>>

\* cleanFitData(records)
CleanRecords ==
  /\ Len(callInput) > 0
  /\ callInput[1].fn = "cleanFitData"
  /\ Len(callOutput) = 0
  /\ callOutput' = <<CleanFitData(callInput[1].records)>>
  /\ UNCHANGED <<file1State, file2State, processing>>
  /\ UNCHANGED <<file1Data, file2Data, cleanData, combinedData, phase,
                 callInput>>

NextSmoothing == SmoothMetric \/ CleanRecords

SpecSmoothing == InitSmoothing /\ [][NextSmoothing]_vars

-----------------------------------------------------------------------------
(* The sample cleaner: claims C21 to C23.                                  *)

\* smoothMetricData has returned
Smoothed ==
  /\ Len(callInput) > 0
  /\ callInput[1].fn = "smoothMetricData"
  /\ Len(callOutput) = 1

\* cleanFitData has returned
Cleaned ==
  /\ Len(callInput) > 0
  /\ callInput[1].fn = "cleanFitData"
  /\ Len(callOutput) = 1

RecordsGiven == callInput[1].records

RecordsReturned == callOutput[1]

OptionsGiven == callInput[1].options[1]

\* a sample holds a valid value of the metric
HoldsValid(record, metric) ==
  IsDefined(record[metric]) /\ ValidMetricValue(metric, record[metric])

\* a sample holds a value of the metric above 0
HoldsPositive(record, metric) ==
  IsDefined(record[metric]) /\ RLess(Num(0), record[metric])

\* the positions of the samples holding a valid value, in order, and their
\* values
ValidPositions(records, metric) ==
  SelectSeq([i \in 1..Len(records) |-> i],
            LAMBDA i : HoldsValid(records[i], metric))

PositivePositions(records, metric) ==
  SelectSeq([i \in 1..Len(records) |-> i],
            LAMBDA i : HoldsPositive(records[i], metric))

ValuesAt(records, metric, positions) ==
  [k \in 1..Len(positions) |-> records[positions[k]][metric]]

\* the valid values of a metric that the outlier filter keeps
KeptByOutlierFilter(records, metric) ==
  RemoveOutliers(ValuesAt(records, metric, ValidPositions(records, metric)),
                 metric)

\* every value of the metric in the output lies between two values the
\* outlier filter keeps: what a mean, a median or an exponential average of
\* kept values only must satisfy
DrawnFromKept(output, records, metric) ==
  LET kept == KeptByOutlierFilter(records, metric)
  IN \A i \in 1..Len(output) :
       IsDefined(output[i][metric]) =>
         \E a, b \in 1..Len(kept) : /\ RLeq(kept[a], output[i][metric])
                                     /\ RLeq(output[i][metric], kept[b])

\* C21: cleaning rejects outliers before it smooths: in the output of
\* smoothMetricData for its metric, and of cleanFitData for every metric, no
\* value outside the outlier bounds survives or contributes to a smoothed value.
C21_OutliersRejectedBeforeSmoothing ==
  /\ Smoothed => DrawnFromKept(RecordsReturned, RecordsGiven, OptionsGiven.metric)
  /\ Cleaned => \A m \in MetricSet : DrawnFromKept(RecordsReturned, RecordsGiven, m)

\* powers 100, 100, 100, 2500 averaged over a window of 3
C21_Witness ==
  /\ Smoothed
  /\ OptionsGiven = [metric |-> "power", windowSize |-> 3,
                     method |-> "movingAverage"]
  /\ Len(RecordsGiven) = 4
  /\ ValuesAt(RecordsGiven, "power", <<1, 2, 3, 4>>)
       = <<Num(100), Num(100), Num(100), Num(2500)>>
  /\ ValuesAt(RecordsReturned, "power", <<1, 2, 3, 4>>)
       = <<Num(100), Num(100), Num(900), Num(1300)>>

\* the smoothing method applied to a sequence of values
SmoothedBy(values, options) ==
  CASE options.method = "exponential" -> ExponentialSmoothing(values, Alpha)
    [] options.method = "median" -> MedianFilter(values, options.windowSize)
    [] OTHER -> MovingAverage(values, options.windowSize)

\* the output has the length of the input and every sample keeps its
\* timestamp and its other metrics
OnlyMetricRewritten(output, records, metric) ==
  /\ Len(output) = Len(records)
  /\ \A i \in 1..Len(records) :
       /\ output[i].timestamp = records[i].timestamp
       /\ \A other \in MetricSet \ {metric} : output[i][other] = records[i][other]

\* the k-th smoothed value stands where the k-th of the given positions is;
\* every other sample holds what it held
WrittenBackAt(output, records, options, positions) ==
  LET values == ValuesAt(records, options.metric, positions)
      smoothed == IF Len(values) < options.windowSize THEN values
                  ELSE SmoothedBy(values, options)
  IN /\ \A k \in 1..Len(positions) :
          output[positions[k]][options.metric] = smoothed[k]
     /\ \A i \in 1..Len(records) :
          (\A k \in 1..Len(positions) : positions[k] # i) =>
             output[i][options.metric] = records[i][options.metric]

\* every pass of cleanFitData leaves in the result what it alone would have
\* made of the records given
PassesIndependent(output, records) ==
  /\ Len(output) = Len(records)
  /\ \A i \in 1..Len(records) :
       /\ output[i].timestamp = records[i].timestamp
       /\ \A k \in 1..Len(MetricsToClean) :
            LET pass == MetricsToClean[k]
            IN output[i][pass.metric] =
                 SmoothMetricData(records, pass.metric, pass.windowSize,
                                  pass.method)[i][pass.metric]

C23_TooFewValuesPassThrough ==
  (/\ Smoothed
   /\ \/ Len(RecordsGiven) = 0
      \/ Len(ValidPositions(RecordsGiven, OptionsGiven.metric))
           < OptionsGiven.windowSize
      \/ Len(PositivePositions(RecordsGiven, OptionsGiven.metric))
           < OptionsGiven.windowSize)
  => RecordsReturned = RecordsGiven

\* two different powers and a window of 3, exponential
C23_Witness ==
  /\ Smoothed
  /\ OptionsGiven = [metric |-> "power", windowSize |-> 3,
                     method |-> "exponential"]
  /\ Len(RecordsGiven) = 2
  /\ ValuesAt(RecordsGiven, "power", <<1, 2>>) = <<Num(100), Num(2500)>>
  /\ RecordsReturned = RecordsGiven

-----------------------------------------------------------------------------
(* movingAverage and medianFilter on their own: claims C24 and C25.        *)

\* most values a filter is given
MaxFilterValues == 4

FilterValues == {Num(1), Num(3), Num(8), Num(20)}

\* window sizes, even and odd, below and above the number of values
WindowSizes == 1..5

InitFilters ==
  /\ callInput \in {<<[fn |-> fn, values |-> values, windowSize |-> w]>> :
                       fn \in {"movingAverage", "medianFilter"},
                       values \in SeqsUpTo(FilterValues, MaxFilterValues),
                       w \in WindowSizes}
  /\ callOutput = <<>>
  /\ Idle

\* movingAverage(values, windowSize)
ApplyMovingAverage ==
  /\ Len(callInput) > 0
  /\ callInput[1].fn = "movingAverage"
  /\ Len(callOutput) = 0
  /\ callOutput' = <<MovingAverage(callInput[1].values, callInput[1].windowSize)>>
  /\ UNCHANGED <<file1State, file2State, processing>>
  /\ UNCHANGED <<file1Data, file2Data, cleanData, combinedData, phase,
                 callInput>>

\* medianFilter(values, windowSize)
ApplyMedianFilter ==
  /\ Len(callInput) > 0
  /\ callInput[1].fn = "medianFilter"
  /\ Len(callOutput) = 0
  /\ callOutput' = <<MedianFilter(callInput[1].values, callInput[1].windowSize)>>
  /\ UNCHANGED <<file1State, file2State, processing>>
  /\ UNCHANGED <<file1Data, file2Data, cleanData, combinedData, phase,
                 callInput>>

NextFilters == ApplyMovingAverage \/ ApplyMedianFilter

SpecFilters == InitFilters /\ [][NextFilters]_vars

Averaged ==
  /\ Len(callInput) > 0
  /\ callInput[1].fn = "movingAverage"
  /\ Len(callOutput) = 1

MedianFiltered ==
  /\ Len(callInput) > 0
  /\ callInput[1].fn = "medianFilter"
  /\ Len(callOutput) = 1

ValuesGiven == callInput[1].values

WindowGiven == callInput[1].windowSize

ValuesReturned == callOutput[1]

\* the values at indices max(0, i - floor(w/2)) .. min(n - 1, i + floor(w/2)),
\* i counted from 0
ClampedWindow(values, w, i) ==
  LET first == IF i - (w \div 2) < 0 THEN 0 ELSE i - (w \div 2)
      last == IF i + (w \div 2) > Len(values) - 1 THEN Len(values) - 1
              ELSE i + (w \div 2)
  IN [k \in 1..(last - first + 1) |-> values[first + k]]

RECURSIVE Total(_)
Total(values) ==
  IF Len(values) = 0 THEN Num(0) ELSE RAdd(values[1], Total(Tail(values)))

\* the arithmetic mean
MeanOf(values) == RDivInt(Total(values), Len(values))

\* m is the k-th smallest of the values
IsKthSmallest(m, values, k) ==
  /\ \E j \in 1..Len(values) : values[j] = m
  /\ Cardinality({j \in 1..Len(values) : RLess(values[j], m)}) < k
  /\ Cardinality({j \in 1..Len(values) : RLeq(values[j], m)}) >= k

\* the median: the middle value of an odd number of values, the mean of the
\* two middle values of an even number
IsMedian(m, values) ==
  LET n == Len(values)
  IN IF n % 2 = 1 THEN IsKthSmallest(m, values, (n + 1) \div 2)
     ELSE \E a, b \in 1..n :
            /\ IsKthSmallest(values[a], values, n \div 2)
            /\ IsKthSmallest(values[b], values, (n \div 2) + 1)
            /\ m = RDivInt(RAdd(values[a], values[b]), 2)

\* the middle value of an odd number of values, the upper of the two middle
\* values of an even number
IsUpperMedian(m, values) == IsKthSmallest(m, values, (Len(values) \div 2) + 1)

\* C24: the moving average has the length of its input, and its element i is
\* the mean of the input at indices max(0, i - floor(w/2)) to
\* min(n - 1, i + floor(w/2)).
C24_MovingAverageIsWindowMean ==
  Averaged =>
    /\ Len(ValuesReturned) = Len(ValuesGiven)
    /\ \A i \in 0..(Len(ValuesGiven) - 1) :
         ValuesReturned[i + 1] = MeanOf(ClampedWindow(ValuesGiven, WindowGiven, i))

\* an even window of 4 over four values: five places wide, clamped at both ends
C24_Witness ==
  /\ Averaged
  /\ WindowGiven = 4
  /\ ValuesGiven = <<Num(1), Num(3), Num(8), Num(20)>>
  /\ ValuesReturned = <<Num(4), Num(8), Num(8), <<31, 3>>>>

\* C25 as stated: the median filter has the length of its input, and its
\* element i is the median of the same clamped window, also where the window
\* holds an even number of values.
C25_MedianOfClampedWindow ==
  MedianFiltered =>
    /\ Len(ValuesReturned) = Len(ValuesGiven)
    /\ \A i \in 0..(Len(ValuesGiven) - 1) :
         IsMedian(ValuesReturned[i + 1],
                  ClampedWindow(ValuesGiven, WindowGiven, i))

\* C25 amended: where the window holds an even number of values, element i is
\* the upper of its two middle values.
C25_UpperMedianOfClampedWindow ==
  MedianFiltered =>
    /\ Len(ValuesReturned) = Len(ValuesGiven)
    /\ \A i \in 0..(Len(ValuesGiven) - 1) :
         IsUpperMedian(ValuesReturned[i + 1],
                       ClampedWindow(ValuesGiven, WindowGiven, i))

\* a window of 3 over values given out of order: two values at each edge
C25_Witness ==
  /\ MedianFiltered
  /\ WindowGiven = 3
  /\ ValuesGiven = <<Num(8), Num(1), Num(20), Num(3)>>
  /\ ValuesReturned = <<Num(8), Num(8), Num(3), Num(20)>>

-----------------------------------------------------------------------------
(* Arrays and objects by reference.  A heap holds the arrays (sequences of *)
(* references to objects, or of strings) and the objects; a reference is   *)
(* the place of an array or an object in the heap.  The calls below are    *)
(* the same functions as above, followed write by write.                   *)

\* the records an array of references stands for
Deref(heap, a) ==
  [i \in 1..Len(heap.arrays[a]) |-> heap.objects[heap.arrays[a][i]]]

\* a new array holding the elements given
NewArray(heap, elements) == [heap EXCEPT !.arrays = Append(@, elements)]

\* the array given under a second name
SameArray(heap, a) == a

\* [...records]: the reference of the copy NewArray makes
FreshArray(heap, a) == Len(heap.arrays) + 1

\* smoothMetricData(records, metric, options), records a reference
SmoothOnHeap(heap, records, metric, windowSize, method) ==
  LET given == Deref(heap, records)
  IN IF Len(given) = 0 THEN [heap |-> heap, returned |-> records]
     ELSE
       LET smoothedRecords == FreshArray(heap, records)
           copied == NewArray(heap, heap.arrays[records])
           values == SelectSeq([i \in 1..Len(given) |-> given[i][metric]],
                               SmoothableValue)
       IN IF TooFewValues(values, windowSize)
          THEN [heap |-> copied, returned |-> records]
          ELSE
            LET result == SmoothMetricData(given, metric, windowSize, method)
                \* the records the loop of lines 51-62 writes to
                rewritten == SelectSeq([i \in 1..Len(given) |-> i],
                                       LAMBDA i : SmoothableValue(given[i][metric]))
                \* { ...smoothedRecords[i], [metric]: smoothedValues[smoothedIndex] }
                objects == copied.objects
                             \o [k \in 1..Len(rewritten) |-> result[rewritten[k]]]
                \* smoothedRecords[i] = the new object
                slots == [i \in 1..Len(given) |->
                            IF SmoothableValue(given[i][metric])
                            THEN Len(copied.objects)
                                   + Cardinality({j \in 1..i :
                                        SmoothableValue(given[j][metric])})
                            ELSE copied.arrays[smoothedRecords][i]]
            IN [heap |-> [arrays |-> [copied.arrays EXCEPT
                                        ![smoothedRecords] = slots],
                          objects |-> objects],
                returned |-> smoothedRecords]

\* the loop of cleanFitData, from pass k on
RECURSIVE CleanPassesOnHeap(_, _, _)
CleanPassesOnHeap(heap, cleanedRecords, k) ==
  IF k > Len(MetricsToClean) THEN [heap |-> heap, returned |-> cleanedRecords]
  ELSE LET pass == SmoothOnHeap(heap, cleanedRecords, MetricsToClean[k].metric,
                                MetricsToClean[k].windowSize,
                                MetricsToClean[k].method)
       IN CleanPassesOnHeap(pass.heap, pass.returned, k + 1)

\* cleanFitData(records), records a reference
CleanOnHeap(heap, records) ==
  IF Len(heap.arrays[records]) = 0 THEN [heap |-> heap, returned |-> records]
  ELSE CleanPassesOnHeap(NewArray(heap, heap.arrays[records]),
                         FreshArray(heap, records), 1)

\* combineFileData(file1Data, file2Data), lines 15-44: a source is a pair of
\* references, to its records and to its availableMetrics
CombineOnHeap(heap, f1, f2) ==
  LET allRecords == heap.arrays[f1[1]] \o heap.arrays[f2[1]]
      times == [i \in 1..Len(allRecords) |-> heap.objects[allRecords[i]].timestamp]
      withAll == NewArray(heap, allRecords)
  IN IF Len(allRecords) = 0 THEN [heap |-> withAll, returned |-> <<>>]
     ELSE
       LET sorted == [withAll EXCEPT !.arrays[Len(withAll.arrays)] =
                                       SortBy(allRecords, times)]
           availableMetrics == Uniq(heap.arrays[f1[2]] \o heap.arrays[f2[2]])
           withMetrics == NewArray(sorted, availableMetrics)
       IN [heap |-> withMetrics,
           returned |-> <<Len(sorted.arrays), Len(withMetrics.arrays)>>]

\* most records an array on the heap holds
MaxHeapRecords == 3

\* a heap holding one array of the records given
HeapOfRecords(records) ==
  [arrays |-> <<[i \in 1..Len(records) |-> i]>>, objects |-> records]

\* a heap holding two sources: their records, then their availableMetrics
HeapOfSources(records1, records2) ==
  [arrays |-> <<[i \in 1..Len(records1) |-> i],
                [i \in 1..Len(records2) |-> Len(records1) + i],
                DerivedMetrics(records1), DerivedMetrics(records2)>>,
   objects |-> records1 \o records2]

InitHeap ==
  /\ callInput \in
       {<<[fn |-> "smoothMetricData",
           heap |-> HeapOfRecords(RecordsHolding(readings)),
           args |-> <<1, o>>]>> :
          readings \in SeqsUpTo(SmoothReadings, MaxHeapRecords),
          o \in SmoothingOptions}
       \cup
       {<<[fn |-> "cleanFitData",
           heap |-> HeapOfRecords(RecordsHolding(readings)),
           args |-> <<1>>]>> :
          readings \in SeqsUpTo(CleanReadings, MaxHeapRecords)}
       \cup
       {<<[fn |-> "combineFileData",
           heap |-> HeapOfSources(records1, records2),
           args |-> <<<<1, 3>>, <<2, 4>>>>]>> :
          records1 \in SeqsUpTo(RecordsOver(PipelineTimes, HeartRateReadings),
                                 MaxRecords),
          records2 \in SeqsUpTo(RecordsOver(PipelineTimes, PowerReadings),
                                 MaxRecords)}
  /\ callOutput = <<>>
  /\ Idle

\* one call on the heap: the heap after it, and what it returned
CallOnHeap(fn, heap, args) ==
  CASE fn = "smoothMetricData" ->
         SmoothOnHeap(heap, args[1], args[2].metric, args[2].windowSize,
                      args[2].method)
    [] fn = "cleanFitData" -> CleanOnHeap(heap, args[1])
    [] fn = "combineFileData" -> CombineOnHeap(heap, args[1], args[2])

SmoothByReference ==
  /\ Len(callInput) > 0
  /\ Len(callOutput) = 0
  /\ callInput[1].fn = "smoothMetricData"
  /\ LET call == CallOnHeap(callInput[1].fn, callInput[1].heap, callInput[1].args)
     IN /\ callInput' = <<[callInput[1] EXCEPT !.heap = call.heap]>>
        /\ callOutput' = <<call.returned>>
  /\ UNCHANGED <<file1State, file2State, processing>>
  /\ UNCHANGED <<file1Data, file2Data, cleanData, combinedData, phase>>

CleanByReference ==
  /\ Len(callInput) > 0
  /\ Len(callOutput) = 0
  /\ callInput[1].fn = "cleanFitData"
  /\ LET call == CallOnHeap(callInput[1].fn, callInput[1].heap, callInput[1].args)
     IN /\ callInput' = <<[callInput[1] EXCEPT !.heap = call.heap]>>
        /\ callOutput' = <<call.returned>>
  /\ UNCHANGED <<file1State, file2State, processing>>
  /\ UNCHANGED <<file1Data, file2Data, cleanData, combinedData, phase>>

CombineByReference ==
  /\ Len(callInput) > 0
  /\ Len(callOutput) = 0
  /\ callInput[1].fn = "combineFileData"
  /\ LET call == CallOnHeap(callInput[1].fn, callInput[1].heap, callInput[1].args)
     IN /\ callInput' = <<[callInput[1] EXCEPT !.heap = call.heap]>>
        /\ callOutput' = <<call.returned>>
  /\ UNCHANGED <<file1State, file2State, processing>>
  /\ UNCHANGED <<file1Data, file2Data, cleanData, combinedData, phase>>

NextHeap == SmoothByReference \/ CleanByReference \/ CombineByReference

SpecHeap == InitHeap /\ [][NextHeap]_vars

\* every array and object of the heap before is in the heap after, unchanged
HeapKept(before, after) ==
  /\ Len(after.arrays) >= Len(before.arrays)
  /\ Len(after.objects) >= Len(before.objects)
  /\ \A a \in 1..Len(before.arrays) : after.arrays[a] = before.arrays[a]
  /\ \A o \in 1..Len(before.objects) : after.objects[o] = before.objects[o]

\* C26: no stage mutates what it is given: after combineFileData,
\* smoothMetricData or cleanFitData every array and every object that was
\* there before the call is as it was, and records that differ from the given
\* ones are returned in a new array.
C26_InputsNotMutated ==
  [][Len(callInput) > 0 =>
       /\ HeapKept(callInput[1].heap, callInput'[1].heap)
       /\ callInput[1].fn \in {"smoothMetricData", "cleanFitData"} =>
            \/ callOutput'[1] > Len(callInput[1].heap.arrays)
            \/ Deref(callInput'[1].heap, callOutput'[1])
                 = Deref(callInput[1].heap, callInput[1].args[1])]_vars

\* a smoothing that changed a power, returned in a new array
C26_Witness ==
  /\ Len(callInput) > 0
  /\ callInput[1].fn = "smoothMetricData"
  /\ Len(callOutput) = 1
  /\ callOutput[1] = 2
  /\ Deref(callInput[1].heap, 2) # Deref(callInput[1].heap, 1)

-----------------------------------------------------------------------------
(* extractData, src/src/utils/fitParser.ts.  A decoded record holds its    *)
(* timestamp as <<t>>, or <<>> when it has none; the distance and the      *)
(* temperature of a record are left out.                                   *)

\* the metric of a decoded record as the FitRecord holds it
KeptMetric(record, metric) ==
  IF IsDefined(record[metric]) /\ ValidMetricValue(metric, record[metric])
  THEN record[metric] ELSE Undefined

\* the loop of lines 59-103
ExtractedRecords(decoded) ==
  LET timed == SelectSeq(decoded, LAMBDA record : IsDefined(record.timestamp))
  IN [i \in 1..Len(timed) |->
        FitRecord(timed[i].timestamp[1],
                  KeptMetric(timed[i], "power"),
                  KeptMetric(timed[i], "heart_rate"),
                  KeptMetric(timed[i], "speed"),
                  KeptMetric(timed[i], "cadence"),
                  KeptMetric(timed[i], "altitude"))]

\* extractData(fitData): the error of line 108, or the data of lines 114-118
ExtractData(decoded) ==
  LET records == ExtractedRecords(decoded)
      availableMetrics == DerivedMetrics(records)
  IN IF Len(availableMetrics) = 0
     THEN [raised |-> TRUE, data |-> Null, summary |-> <<>>]
     ELSE [raised |-> FALSE,
           data |-> ProcessedFitData(records, availableMetrics),
           summary |-> <<CalculateSummary(records, availableMetrics)>>]

\* most records a decoded file holds
MaxDecodedRecords == 2

\* what a decoded record holds: nothing, or one metric below, at or above 0
DecodedReadings ==
  {[m \in MetricSet |-> Undefined]}
  \cup {[m \in MetricSet |-> IF m = metric THEN v ELSE Undefined] :
          metric \in MetricSet, v \in {Num(-3), Num(0), Num(140)}}

DecodedRecords ==
  {[timestamp |-> ts, power |-> r["power"], heart_rate |-> r["heart_rate"],
    speed |-> r["speed"], cadence |-> r["cadence"], altitude |-> r["altitude"]] :
     ts \in {<<>>, <<1000>>}, r \in DecodedReadings}

InitExtract ==
  /\ callInput \in {<<[fn |-> "extractData", records |-> decoded]>> :
                       decoded \in SeqsUpTo(DecodedRecords, MaxDecodedRecords)}
  /\ callOutput = <<>>
  /\ Idle

\* extractData(fitData)
Extract ==
  /\ Len(callInput) > 0
  /\ callInput[1].fn = "extractData"
  /\ Len(callOutput) = 0
  /\ callOutput' = <<ExtractData(callInput[1].records)>>
  /\ UNCHANGED <<file1State, file2State, processing>>
  /\ UNCHANGED <<file1Data, file2Data, cleanData, combinedData, phase,
                 callInput>>

NextExtract == Extract

SpecExtract == InitExtract /\ [][NextExtract]_vars

Extracted ==
  /\ Len(callInput) > 0
  /\ callInput[1].fn = "extractData"
  /\ Len(callOutput) = 1

\* the decoded records that carry a timestamp, in order
DecodedSamples ==
  SelectSeq(callInput[1].records, LAMBDA record : IsDefined(record.timestamp))

\* power >= 0, heart_rate > 0, speed >= 0, cadence >= 0, altitude any value
MeetsValidityPredicate(metric, v) ==
  /\ IsDefined(v)
  /\ CASE metric = "heart_rate" -> RLess(Num(0), v)
       [] metric \in {"power", "speed", "cadence"} -> RLeq(Num(0), v)
       [] OTHER -> TRUE

\* the metrics some decoded sample holds with a valid value
MetricsKept ==
  {m \in MetricSet :
     \E i \in 1..Len(DecodedSamples) : MeetsValidityPredicate(m, DecodedSamples[i][m])}

\* C27: extractData keeps a metric on a sample exactly when the value meets
\* the metric's validity predicate, reports exactly the metrics kept on some
\* sample, and raises an error, returning no data, when there is none.
C27_DecoderKeepsValidMetrics ==
  Extracted =>
    LET result == callOutput[1]
    IN IF MetricsKept = {}
       THEN result.raised /\ IsNull(result.data)
       ELSE /\ ~result.raised
            /\ Len(RecordsOf(result.data)) = Len(DecodedSamples)
            /\ \A i \in 1..Len(DecodedSamples) : \A m \in MetricSet :
                 RecordsOf(result.data)[i][m] =
                   IF MeetsValidityPredicate(m, DecodedSamples[i][m])
                   THEN DecodedSamples[i][m] ELSE Undefined
            /\ {AvailableOf(result.data)[k] :
                   k \in 1..Len(AvailableOf(result.data))} = MetricsKept

\* a heart rate of 0 is dropped, a power of 0 is kept
C27_Witness ==
  /\ Extracted
  /\ Len(DecodedSamples) = 2
  /\ DecodedSamples[1]["heart_rate"] = Num(0)
  /\ DecodedSamples[2]["power"] = Num(0)
  /\ ~callOutput[1].raised
  /\ AvailableOf(callOutput[1].data) = <<"power">>

-----------------------------------------------------------------------------
(* The upload page, src/src/components/UploadPage.tsx, and App.  A file is *)
(* its name and the records the parser decodes from it; processFile        *)
(* settles some time after the file was selected, and a second file can be *)
(* dropped on a slot (FileUpload.handleDrop) before the first has settled. *)

\* most calls of processFile in flight at once
MaxInFlight == 2

FitFile(name, decoded) == [name |-> name, decoded |-> decoded]

\* a heart-rate recording, a power recording, a file without any valid metric
Files ==
  {FitFile("a.fit", <<[timestamp |-> <<0>>, power |-> Undefined,
                       heart_rate |-> Num(100), speed |-> Undefined,
                       cadence |-> Undefined, altitude |-> Undefined]>>),
   FitFile("b.fit", <<[timestamp |-> <<1000>>, power |-> Num(200),
                       heart_rate |-> Undefined, speed |-> Undefined,
                       cadence |-> Undefined, altitude |-> Undefined]>>),
   FitFile("empty.fit", <<[timestamp |-> <<0>>, power |-> Undefined,
                           heart_rate |-> Num(0), speed |-> Undefined,
                           cadence |-> Undefined, altitude |-> Undefined]>>)}

\* what fitProcessor.processFile(file) settles with
ProcessFile(file) == ExtractData(file.decoded)

Slot(k) == IF k = 1 THEN file1State ELSE file2State

\* the first setState of processFile (lines 35-42)
Selected(prev, file) ==
  [prev EXCEPT !.file = <<file>>, !.fileName = file.name, !.loading = TRUE,
               !.error = <<>>, !.data = Null]

\* the setState after the await (lines 46-51)
Resolved(prev, data) ==
  [prev EXCEPT !.loading = FALSE, !.data = data, !.error = <<>>]

\* the setState of the catch (lines 53-58)
Rejected(prev) ==
  [prev EXCEPT !.loading = FALSE, !.error = <<"Failed to process FIT data">>,
               !.data = Null]

\* handleFile1Select, handleFile2Select: processFile up to its await
SelectFile ==
  /\ phase = "upload"
  /\ Len(processing) < MaxInFlight
  /\ \E k \in {1, 2}, file \in Files :
       /\ file1State' = IF k = 1 THEN Selected(file1State, file) ELSE file1State
       /\ file2State' = IF k = 2 THEN Selected(file2State, file) ELSE file2State
       /\ processing' = Append(processing, [slot |-> k, file |-> file])
  /\ UNCHANGED <<file1Data, file2Data, cleanData, combinedData, phase,
                 callInput, callOutput>>

\* processing without its p-th call
Settled(p) ==
  [j \in 1..(Len(processing) - 1) |->
     IF j < p THEN processing[j] ELSE processing[j + 1]]

\* a call of processFile resolves: processFile after its await
ProcessingResolves ==
  /\ phase = "upload"
  /\ \E p \in 1..Len(processing) :
       LET call == processing[p]
           outcome == ProcessFile(call.file)
       IN /\ ~outcome.raised
          /\ file1State' = IF call.slot = 1
                            THEN Resolved(file1State, outcome.data)
                            ELSE file1State
          /\ file2State' = IF call.slot = 2
                            THEN Resolved(file2State, outcome.data)
                            ELSE file2State
          /\ processing' = Settled(p)
  /\ UNCHANGED <<file1Data, file2Data, cleanData, combinedData, phase,
                 callInput, callOutput>>

\* a call of processFile rejects: the catch of processFile
ProcessingRejects ==
  /\ phase = "upload"
  /\ \E p \in 1..Len(processing) :
       LET call == processing[p]
           outcome == ProcessFile(call.file)
       IN /\ outcome.raised
          /\ file1State' = IF call.slot = 1 THEN Rejected(file1State)
                            ELSE file1State
          /\ file2State' = IF call.slot = 2 THEN Rejected(file2State)
                            ELSE file2State
          /\ processing' = Settled(p)
  /\ UNCHANGED <<file1Data, file2Data, cleanData, combinedData, phase,
                 callInput, callOutput>>

\* canAnalyze, hasErrors, isLoading (lines 74-76)
CanAnalyze == ~IsNull(file1State.data) \/ ~IsNull(file2State.data)

HasErrors == IsDefined(file1State.error) \/ IsDefined(file2State.error)

IsLoading == file1State.loading \/ file2State.loading

\* the button enabled whenever some slot holds data
AnalyzeEnabledWithData == CanAnalyze

\* the Analyze button is not disabled (line 154)
AnalyzeEnabled == ~(~CanAnalyze \/ HasErrors \/ IsLoading)

\* UploadPage.handleAnalyze and App.handleAnalyze; the upload page is
\* unmounted with its state, and calls still in flight settle on nothing
HandleAnalyze ==
  /\ phase = "upload"
  /\ AnalyzeEnabled
  /\ file1Data' = file1State.data
  /\ file2Data' = file2State.data
  /\ phase' = "analysis"
  /\ combinedData' = <<CombineFileData(file1State.data, file2State.data)>>
  /\ file1State' = EmptySlot
  /\ file2State' = EmptySlot
  /\ processing' = <<>>
  /\ UNCHANGED <<cleanData, callInput, callOutput>>

\* App.handleNewUpload; the useMemo of App runs again
HandleNewUpload ==
  /\ phase = "analysis"
  /\ file1Data' = Null
  /\ file2Data' = Null
  /\ phase' = "upload"
  /\ combinedData' = <<CombineFileData(Null, Null)>>
  /\ UNCHANGED <<cleanData, callInput, callOutput, file1State, file2State,
                 processing>>

\* App mounted: nothing selected, the useMemo has run once
InitUpload ==
  /\ file1Data = Null
  /\ file2Data = Null
  /\ cleanData = <<>>
  /\ combinedData = <<CombineFileData(Null, Null)>>
  /\ phase = "upload"
  /\ callInput = <<>>
  /\ callOutput = <<>>
  /\ NothingSelected

NextUpload ==
  \/ SelectFile
  \/ ProcessingResolves
  \/ ProcessingRejects
  \/ HandleAnalyze
  \/ HandleNewUpload

SpecUpload == InitUpload /\ [][NextUpload]_vars

\* no call for slot k is in flight
AllSettled(k) == \A p \in 1..Len(processing) : processing[p].slot # k

\* the slot shows what processing the file leads to
BelongsTo(slot, file) ==
  /\ slot.fileName = file.name
  /\ slot.data = ProcessFile(file).data
  /\ IsDefined(slot.error) = ProcessFile(file).raised

\* C28: once the processings of a slot have finished, its data, error and
\* fileName all belong to the file selected last, in whatever order the
\* processings completed.
C28_SlotShowsLastSelectedFile ==
  \A k \in {1, 2} :
    (phase = "upload" /\ IsDefined(Slot(k).file) /\ AllSettled(k))
      => BelongsTo(Slot(k), Slot(k).file[1])

\* a.fit, then b.fit on slot 1; b.fit settled first: the name of b.fit over
\* the data of a.fit
C28_Witness ==
  /\ phase = "upload"
  /\ processing = <<>>
  /\ file1State.fileName = "b.fit"
  /\ file1State.file[1].name = "b.fit"
  /\ ~file1State.loading
  /\ AvailableOf(file1State.data) = <<"heart_rate">>

\* a slot never holds data and an error, and holds neither while loading
SlotConsistent(slot) ==
  /\ ~(~IsNull(slot.data) /\ IsDefined(slot.error))
  /\ slot.loading => (IsNull(slot.data) /\ ~IsDefined(slot.error))

\* C29: a slot never holds both data and an error, and neither while it is
\* loading; the analysis starts only when some slot holds data, none holds
\* an error and none is loading, so it never combines two null inputs.
C29_SlotsConsistentAnalyzeGuarded ==
  /\ [](/\ SlotConsistent(file1State)
        /\ SlotConsistent(file2State)
        /\ phase = "analysis" => ~(IsNull(file1Data) /\ IsNull(file2Data)))
  /\ [][(phase = "upload" /\ phase' = "analysis") =>
           /\ CanAnalyze /\ ~HasErrors /\ ~IsLoading
           /\ ~(IsNull(file1Data') /\ IsNull(file2Data'))
           /\ combinedData' = <<CombineFileData(file1Data', file2Data')>>]_vars

\* an analysis of one file, the other slot never used
C29_Witness ==
  /\ phase = "analysis"
  /\ AvailableOf(file1Data) = <<"heart_rate">>
  /\ IsNull(file2Data)
  /\ Len(combinedData[1].chartData) = 1

-----------------------------------------------------------------------------
(* Resampling and the values of the sources: claim C30.                    *)

\* the values of a metric the samples of the sources hold
SourceValues(m) == {Pool[k][m] : k \in {j \in 1..Len(Pool) : IsDefined(Pool[j][m])}}

\* v lies between the least and the greatest of the values, give or take
\* the slack
WithinSpan(v, values, slack) ==
  \E lo, hi \in values : /\ RLeq(RSub(lo, slack), v)
                          /\ RLeq(v, RAdd(hi, slack))

\* half a unit of the display precision of a metric: 1/20 for speed, 1/2 for
\* the others
HalfDisplayUnit(m) == IF m = "speed" THEN <<1, 20>> ELSE <<1, 2>>

\* C30: resampling never extrapolates: every value of a metric in a frame
\* lies between the least and the greatest value of that metric in the source
\* samples, and so do min, avg and max of its statistics, in that order, up to
\* display rounding.
C30_NoExtrapolation ==
  (Analysed /\ ~combinedData[1].raised) =>
    \A m \in MetricSet :
      /\ \A i \in 1..Len(Grid) :
           IsDefined(Grid[i][m]) => WithinSpan(Grid[i][m], SourceValues(m), Num(0))
      /\ Len(Summary.stats[m]) > 0 =>
           LET stats == Summary.stats[m][1]
           IN /\ WithinSpan(stats.min, SourceValues(m), HalfDisplayUnit(m))
              /\ WithinSpan(stats.max, SourceValues(m), HalfDisplayUnit(m))
              /\ RLeq(stats.min, stats.avg)
              /\ RLeq(stats.avg, stats.max)

\* a heart rate strictly between the two the source holds
C30_Witness ==
  /\ Analysed
  /\ ~combinedData[1].raised
  /\ SourceValues("heart_rate") = {Num(100), Num(140)}
  /\ \E i \in 1..Len(Grid) :
       /\ IsDefined(Grid[i]["heart_rate"])
       /\ RLess(Num(100), Grid[i]["heart_rate"])
       /\ RLess(Grid[i]["heart_rate"], Num(140))
  /\ Len(Summary.stats["heart_rate"]) > 0

====
